---------------------------- MODULE Spec2Model ----------------------------
(***************************************************************************)
(* A model of the ale-omniswitch digital twin: the lab supervisor          *)
(* (main.py, NetworkLabCLI), the switch (omniswitch.py, OmniSwitch with    *)
(* its VLANManager and OSPFEngine) and the per-switch CLI                  *)
(* (osTelnetCLI.py).                                                       *)
(*                                                                         *)
(* The program is single threaded: a handler runs to completion, calling   *)
(* the neighbours' handlers as ordinary (reentrant) method calls.  The     *)
(* model keeps that call stack explicitly in the variable stack: a         *)
(* top-level operation is possible only when the stack is empty, and while *)
(* it is not empty the only possible step is the next step of the frame    *)
(* on top.  A state with an empty stack is a quiescent state.              *)
(***************************************************************************)
EXTENDS Integers, Sequences, FiniteSets, TLC

(***************************************************************************)
(* Names and bounds                                                        *)
(***************************************************************************)

\* add_node("sw1"), add_node("sw2"), add_node("sw3") of load_config
Switches == {"sw1", "sw2", "sw3"}

\* a switch name the supervisor never registered
UnknownSwitch == "sw9"

\* Python's None
None == "None"

\* OmniSwitch.ports holds range(1, 25); the model keeps the first NumPorts
NumPorts == 2

PortIds == 1..NumPorts

\* the port numbers an operator may type: one below and one above the range too
TypedPorts == 0..(NumPorts + 1)

\* an IPv4 address a.b.c.d of the 10.0.0.0/8 lab, as its 32-bit value
Ip(b, c, d) == ((10 * 256 + b) * 256 + c) * 256 + d

\* ipaddress.ip_interface(cidr).network / ip_network(cidr).network_address
NetworkAddress(ip, plen) == ip - (ip % (2 ^ (32 - plen)))

\* a CIDR string "a.b.c.d/plen" is the pair <<address, plen>>
Cidr(ip, plen) == <<ip, plen>>

\* ipaddress.ip_network(key), strict: ValueError when host bits are set
IsNetwork(key) == NetworkAddress(key[1], key[2]) = key[1]

\* ipaddress.ip_address(ip) in ipaddress.ip_network(key)
InNetwork(ip, key) == NetworkAddress(ip, key[2]) = key[1]

\* str(ipaddress.ip_interface(ip_with_prefix).network)
InterfaceNetwork(ip, plen) == Cidr(NetworkAddress(ip, plen), plen)

(***************************************************************************)
(* Python dict, as the sequence of its items in insertion order            *)
(***************************************************************************)

DictKeys(d) == {d[i].key : i \in 1..Len(d)}

DictHas(d, k) == k \in DictKeys(d)

DictIndex(d, k) == CHOOSE i \in 1..Len(d) : d[i].key = k

DictGet(d, k) == d[DictIndex(d, k)]

\* d[k] = item: an existing key keeps its position, a new key goes last
DictSet(d, item) ==
    IF DictHas(d, item.key)
    THEN [d EXCEPT ![DictIndex(d, item.key)] = item]
    ELSE Append(d, item)

\* del d[k]
DictDel(d, k) ==
    LET i == DictIndex(d, k)
    IN  SubSeq(d, 1, i - 1) \o SubSeq(d, i + 1, Len(d))

(***************************************************************************)
(* Python dict whose order is never observed, as a function                *)
(***************************************************************************)

EmptyMap == <<>>

MapSet(f, k, v) == [x \in (DOMAIN f) \cup {k} |-> IF x = k THEN v ELSE f[x]]

MapDel(f, k) == [x \in (DOMAIN f) \ {k} |-> f[x]]

(***************************************************************************)
(* State                                                                   *)
(***************************************************************************)
VARIABLES
    ports,              \* ports[s][p] = [linked_node, status]            (Port)
    graph,              \* graph[s]: the nodes of s.graph that carry an "object"
    name,               \* name[s]: OmniSwitch.name of the switch registered as s
    vlans,              \* vlans[s]: VLANManager.vlans, vlan_id -> [name, ports]
    l3_interfaces,      \* l3_interfaces[s]: dict name -> L3Interface
    routing_table,      \* routing_table[s]: dict network -> (next_hop, route_type)
    arp_table,          \* arp_table[s]: ip -> [mac, port]
    mac_table,          \* mac_table[s]: mac -> port
    arp_queue,          \* arp_queue[s]: ip -> sequence of [packet, ttl, timestamp]
    arp_request_timestamps,   \* arp_request_timestamps[s]: ip -> time
    ping_reply_received \* ping_reply_received[s]

VARIABLES
    lsdb,               \* lsdb[s]: OSPFEngine.lsdb, dict router -> dict neighbor -> cost
    ospf_routing_table, \* ospf_routing_table[s]: OSPFEngine.routing_table
    ospf_neighbors,     \* ospf_neighbors[s]: OSPFEngine.neighbors
    connected_subnets   \* connected_subnets[s]: OSPFEngine.connected_subnets

VARIABLES
    stack,              \* the call stack, the running frame first
    ret,                \* the value the last finished call returned
    now,                \* time.time(), in whole seconds
    raised,             \* the exception the last top-level call ended with, or None
    ops,                \* the number of operator commands given so far
    hist,               \* what the checks remember of the last commands
    ping                \* the state of OmniSwitch.ping, the one caller of send_packet

topoVars == <<ports, graph>>

confVars == <<name, vlans, l3_interfaces>>

arpVars == <<arp_table, mac_table, arp_queue, arp_request_timestamps, ping_reply_received>>

ospfVars == <<lsdb, ospf_routing_table, ospf_neighbors, connected_subnets>>

callVars == <<stack, ret, now, ping>>

vars ==
    <<ports, graph, name, vlans, l3_interfaces, routing_table, arp_table, mac_table,
      arp_queue, arp_request_timestamps, ping_reply_received, lsdb, ospf_routing_table,
      ospf_neighbors, connected_subnets, stack, ret, now, raised, ops, hist, ping>>

\* Port.__init__
NewPort == [linked_node |-> None, status |-> "down"]

\* None, where the value is otherwise an id (L3Interface.vlan, L3Interface.port_id)
NoId == 0

\* the port of an ARP or MAC entry the switch owns itself
LocalPort == -1

\* L3Interface(name, ip_address, vlan, port_id, mac_address)
L3Interface(key, ip, plen, vlan, port_id, mac_address) ==
    [key |-> key, ip |-> ip, plen |-> plen, vlan |-> vlan, port_id |-> port_id,
     mac_address |-> mac_address]

\* a routing-table item: routing_table[key] = (next_hop, route_type)
Route(key, next_hop, route_type) ==
    [key |-> key, next_hop |-> next_hop, route_type |-> route_type]

\* a next hop that is an IP address, and the "Port<id>" of a routed port
IpHop(ip) == <<"ip", ip>>

PortHop(p) == <<"Port", p>>

NoHist == [op |-> "none"]

NoPing == [pc |-> "idle"]

(***************************************************************************)
(* VLANs and L3 interfaces                                                 *)
(***************************************************************************)

\* VLANManager.create_vlan
create_vlan(vl, vlan_id, vname) ==
    IF vlan_id \in DOMAIN vl THEN vl
    ELSE MapSet(vl, vlan_id, [name |-> vname, ports |-> {}])

\* a create_vlan_interface that does not ask whether the VLAN exists
CreateInterfaceUnchecked(sw, vlan_id, ip, plen, mac) ==
    [sw EXCEPT
        !.l3_interfaces =
            DictSet(@, L3Interface(<<"VLAN", vlan_id>>, ip, plen, vlan_id, NoId, mac)),
        !.routing_table =
            DictSet(@, Route(InterfaceNetwork(ip, plen), IpHop(ip), "connected")),
        !.arp_table = MapSet(@, ip, [mac |-> mac, port |-> LocalPort]),
        !.mac_table = MapSet(@, mac, LocalPort)]

\* OmniSwitch.create_vlan_interface on one switch whose tables are the record sw;
\* mac is what generate_random_mac() returned
create_vlan_interface(sw, vlan_id, ip, plen, mac) ==
    IF vlan_id \notin DOMAIN sw.vlans THEN sw
    ELSE [sw EXCEPT
            !.l3_interfaces =
                DictSet(@, L3Interface(<<"VLAN", vlan_id>>, ip, plen, vlan_id, NoId, mac)),
            !.routing_table =
                DictSet(@, Route(InterfaceNetwork(ip, plen), IpHop(ip), "connected")),
            !.arp_table = MapSet(@, ip, [mac |-> mac, port |-> LocalPort]),
            !.mac_table = MapSet(@, mac, LocalPort)]

\* the tables of a switch right after OmniSwitch.__init__
NewSwitch ==
    [vlans |-> EmptyMap, l3_interfaces |-> <<>>, routing_table |-> <<>>,
     arp_table |-> EmptyMap, mac_table |-> EmptyMap]

\* load_config, step 3: create_vlan and create_vlan_interface on each switch
LabInterfaces ==
    [sw1 |-> <<[vlan |-> 1, ip |-> Ip(1, 1, 1), plen |-> 24, mac |-> "mac11"]>>,
     sw2 |-> <<[vlan |-> 1, ip |-> Ip(1, 1, 2), plen |-> 24, mac |-> "mac21"],
               [vlan |-> 2, ip |-> Ip(1, 2, 2), plen |-> 24, mac |-> "mac22"]>>,
     sw3 |-> <<[vlan |-> 2, ip |-> Ip(1, 2, 3), plen |-> 24, mac |-> "mac32"]>>]

RECURSIVE LabSwitch(_, _)
LabSwitch(s, n) ==
    IF n = 0 THEN NewSwitch
    ELSE LET c == LabInterfaces[s][n]
             before == LabSwitch(s, n - 1)
             withVlan == [before EXCEPT !.vlans = create_vlan(@, c.vlan, "")]
         IN  create_vlan_interface(withVlan, c.vlan, c.ip, c.plen, c.mac)

LabConfigured(s) == LabSwitch(s, Len(LabInterfaces[s]))

\* what is the same after add_node and after load_config
InitCommon ==
    /\ name = [s \in Switches |-> s]
    /\ arp_queue = [s \in Switches |-> EmptyMap]
    /\ arp_request_timestamps = [s \in Switches |-> EmptyMap]
    /\ ping_reply_received = [s \in Switches |-> FALSE]
    /\ lsdb = [s \in Switches |-> <<>>]
    /\ ospf_routing_table = [s \in Switches |-> <<>>]
    /\ ospf_neighbors = [s \in Switches |-> <<>>]
    /\ connected_subnets = [s \in Switches |-> {}]
    /\ stack = <<>>
    /\ ret = None
    /\ now = 1
    /\ raised = None
    /\ ops = 0
    /\ hist = NoHist
    /\ ping = NoPing

\* NetworkLabCLI.add_node for each switch: OmniSwitch.__init__
InitFresh ==
    /\ InitCommon
    /\ ports = [s \in Switches |-> [p \in PortIds |-> NewPort]]
    /\ graph = [s \in Switches |-> {}]
    /\ vlans = [s \in Switches |-> NewSwitch.vlans]
    /\ l3_interfaces = [s \in Switches |-> NewSwitch.l3_interfaces]
    /\ routing_table = [s \in Switches |-> NewSwitch.routing_table]
    /\ arp_table = [s \in Switches |-> NewSwitch.arp_table]
    /\ mac_table = [s \in Switches |-> NewSwitch.mac_table]

(***************************************************************************)
(* The supervisor: NetworkLabCLI.link                                      *)
(***************************************************************************)

\* a link that sets the peer name and leaves the port down
SetLinkedStatusForgotten(pp, s, p, peer) ==
    [pp EXCEPT ![s][p] = [linked_node |-> peer, status |-> @.status]]

\* s.ports[p].linked_node = peer; s.ports[p].status = "up"
SetLinked(pp, s, p, peer) ==
    [pp EXCEPT ![s][p] = [linked_node |-> peer, status |-> "up"]]

\* the ports after link(sw1, port1, sw2, port2): ports[port] raises KeyError
\* for a port id outside the range, after the statements before it have run
LinkPorts(pp, sw1, port1, sw2, port2) ==
    IF sw1 \notin Switches \/ sw2 \notin Switches THEN pp
    ELSE IF port1 \notin PortIds THEN pp
    ELSE IF port2 \notin PortIds THEN SetLinked(pp, sw1, port1, sw2)
    ELSE SetLinked(SetLinked(pp, sw1, port1, sw2), sw2, port2, sw1)

\* s1.graph.add_node(sw2, object=s2); s2.graph.add_node(sw1, object=s1)
LinkGraph(g, sw1, port1, sw2, port2) ==
    IF sw1 \in Switches /\ sw2 \in Switches /\ port1 \in PortIds /\ port2 \in PortIds
    THEN LET g1 == [g EXCEPT ![sw1] = @ \cup {sw2}]
         IN  [g1 EXCEPT ![sw2] = @ \cup {sw1}]
    ELSE g

LinkRaises(sw1, port1, sw2, port2) ==
    /\ sw1 \in Switches
    /\ sw2 \in Switches
    /\ (port1 \notin PortIds \/ port2 \notin PortIds)

link(sw1, port1, sw2, port2) ==
    /\ ports' = LinkPorts(ports, sw1, port1, sw2, port2)
    /\ graph' = LinkGraph(graph, sw1, port1, sw2, port2)
    /\ raised' = IF LinkRaises(sw1, port1, sw2, port2) THEN "KeyError" ELSE None
    /\ ops' = ops + 1
    /\ hist' = NoHist
    /\ UNCHANGED <<confVars, routing_table, arpVars, ospfVars, callVars>>

\* the lab after load_config: the links sw1:1 <--> sw2:1 and sw2:2 <--> sw3:1, then
\* the VLAN interfaces
InitLab ==
    /\ InitCommon
    /\ ports = LinkPorts(LinkPorts([s \in Switches |-> [p \in PortIds |-> NewPort]],
                                  "sw1", 1, "sw2", 1), "sw2", 2, "sw3", 1)
    /\ graph = LinkGraph(LinkGraph([s \in Switches |-> {}],
                                  "sw1", 1, "sw2", 1), "sw2", 2, "sw3", 1)
    /\ vlans = [s \in Switches |-> LabConfigured(s).vlans]
    /\ l3_interfaces = [s \in Switches |-> LabConfigured(s).l3_interfaces]
    /\ routing_table = [s \in Switches |-> LabConfigured(s).routing_table]
    /\ arp_table = [s \in Switches |-> LabConfigured(s).arp_table]
    /\ mac_table = [s \in Switches |-> LabConfigured(s).mac_table]

\* how many link commands the supervisor gives
MaxLinkOps == 3

\* the supervisor's "link <sw1> <p1> <sw2> <p2>" with existing switches and ports
LinkCmd ==
    \E sw1 \in Switches, sw2 \in Switches, port1 \in PortIds, port2 \in PortIds :
        /\ stack = <<>>
        /\ ops < MaxLinkOps
        /\ link(sw1, port1, sw2, port2)

\* the names of switches the supervisor types
TypedSwitches == Switches \cup {UnknownSwitch}

\* link(sw1, port1, sw2, port2) names a switch or a port that does not exist
BadLinkArgs(sw1, port1, sw2, port2) ==
    \/ sw1 \notin Switches
    \/ sw2 \notin Switches
    \/ port1 \notin PortIds
    \/ port2 \notin PortIds

\* the supervisor's "link <sw1> <p1> <sw2> <p2>" with a name or a port id that
\* does not exist
LinkTypoCmd ==
    \E sw1 \in TypedSwitches, sw2 \in TypedSwitches, port1 \in TypedPorts, port2 \in TypedPorts :
        /\ stack = <<>>
        /\ ops < MaxLinkOps
        /\ BadLinkArgs(sw1, port1, sw2, port2)
        /\ link(sw1, port1, sw2, port2)

\* the names typed after "set system name"
TypedNames == {"core", "sw1"}

\* OmniSwitch.set_system_name
set_system_name(s, new_name) ==
    /\ name' = [name EXCEPT ![s] = new_name]
    /\ raised' = None
    /\ ops' = ops + 1
    /\ hist' = NoHist
    /\ UNCHANGED <<topoVars, vlans, l3_interfaces, routing_table, arpVars, ospfVars, callVars>>

\* "set system name <name>" on the CLI of switch s
RenameCmd ==
    \E s \in Switches, new_name \in TypedNames :
        /\ stack = <<>>
        /\ ops < MaxLinkOps
        /\ set_system_name(s, new_name)

NextLink == LinkCmd \/ LinkTypoCmd \/ RenameCmd

SpecLink == InitFresh /\ [][NextLink]_vars

\* C9: a port whose linked_node is set has status up, in every reachable state;
\* before the first link every port is unlinked and down.
C9_LinkedImpliesUp ==
    /\ \A s \in Switches, p \in PortIds :
          ports[s][p].linked_node # None => ports[s][p].status = "up"
    /\ ops = 0 =>
          \A s \in Switches, p \in PortIds :
              ports[s][p].linked_node = None /\ ports[s][p].status = "down"

\* a link has been made: both its endpoints carry a peer name
C9_Witness ==
    \E s \in Switches, t \in Switches, p \in PortIds, q \in PortIds :
        /\ <<s, p>> # <<t, q>>
        /\ ports[s][p].linked_node = t
        /\ ports[t][q].linked_node = s

\* C8: link(a, pA, b, pB) with pA of a or pB of b already linked is refused: it
\* leaves linked_node and status of every port unchanged.
C8_LinkRefusedWhenAlreadyLinked ==
    [][\A sw1 \in Switches, sw2 \in Switches, port1 \in PortIds, port2 \in PortIds :
          (/\ link(sw1, port1, sw2, port2)
           /\ (ports[sw1][port1].linked_node # None \/ ports[sw2][port2].linked_node # None))
          => ports' = ports]_vars

\* C21: link(sw1, p1, sw2, p2) that names an unknown switch or a port id outside
\* the range changes no port and no neighbour graph, on neither endpoint.
C21_BadLinkChangesNothing ==
    [][\A sw1 \in TypedSwitches, sw2 \in TypedSwitches,
          port1 \in TypedPorts, port2 \in TypedPorts :
          (BadLinkArgs(sw1, port1, sw2, port2) /\ link(sw1, port1, sw2, port2))
          => ports' = ports /\ graph' = graph]_vars

\* C25: the name of a switch never changes: in every reachable state each
\* switch has the name it was registered under, the one the linked_node of its
\* peers' ports holds.
C25_NameImmutable ==
    /\ \A s \in Switches : name[s] = s
    /\ \A s \in Switches, p \in PortIds :
          ports[s][p].linked_node \in Switches
          => name[ports[s][p].linked_node] = ports[s][p].linked_node

\* the ports of s whose linked_node is t
PortsTo(s, t) == {p \in PortIds : ports[s][p].linked_node = t}

\* C7: after any sequence of link commands, the ports of A that name B and the
\* ports of B that name A pair off one to one.
C7_LinkSymmetry ==
    \A s \in Switches, t \in Switches :
        s # t => Cardinality(PortsTo(s, t)) = Cardinality(PortsTo(t, s))

(***************************************************************************)
(* The routing table: add_route, remove_route, _lookup_route               *)
(***************************************************************************)

\* what _lookup_route returns, or the ValueError ipaddress.ip_network raises
Found(next_hop, route_type) ==
    [status |-> "found", next_hop |-> next_hop, route_type |-> route_type]

NotFound == [status |-> "none"]

LookupError == [status |-> "ValueError"]

\* OmniSwitch._lookup_route from item i on: the first item, in the order of the
\* dict, whose network holds dst_ip
RECURSIVE LookupFrom(_, _, _)
LookupFrom(rt, dst_ip, i) ==
    IF i > Len(rt) THEN NotFound
    ELSE IF ~IsNetwork(rt[i].key) THEN LookupError
    ELSE IF InNetwork(dst_ip, rt[i].key) THEN Found(rt[i].next_hop, rt[i].route_type)
    ELSE LookupFrom(rt, dst_ip, i + 1)

lookup_route(rt, dst_ip) == LookupFrom(rt, dst_ip, 1)

\* an add_route that leaves an entry the table already has
AddRouteKeepsExisting(rt, ip_cidr, next_hop) ==
    IF DictHas(rt, ip_cidr) THEN rt
    ELSE Append(rt, [key |-> ip_cidr, next_hop |-> <<"ip", next_hop>>, route_type |-> "static"])

\* OmniSwitch.add_route
AddRouteTable(rt, ip_cidr, next_hop) == DictSet(rt, Route(ip_cidr, IpHop(next_hop), "static"))

\* OmniSwitch.remove_route
RemoveRouteTable(rt, ip_cidr) == IF DictHas(rt, ip_cidr) THEN DictDel(rt, ip_cidr) ELSE rt

\* the CIDRs and gateways the operator types
RouteCidrs ==
    {Cidr(Ip(0, 0, 0), 8), Cidr(Ip(1, 0, 0), 16), Cidr(Ip(1, 1, 0), 24), Cidr(Ip(1, 2, 0), 24)}

Gateways == {Ip(1, 1, 2), Ip(1, 2, 3)}

\* the destinations looked up
LookupIps == {Ip(1, 1, 2), Ip(1, 2, 3), Ip(2, 0, 1)}

\* how many commands the operator gives on the routing tables
MaxCliOps == 3

\* "ip static-route <cidr> gateway <next-hop>" on the CLI of switch s
add_route(s, ip_cidr, next_hop) ==
    /\ stack = <<>>
    /\ routing_table' = [routing_table EXCEPT ![s] = AddRouteTable(@, ip_cidr, next_hop)]
    /\ hist' = [op |-> "add_route", sw |-> s, key |-> ip_cidr, next_hop |-> next_hop,
                before |-> routing_table[s]]
    /\ raised' = None
    /\ ops' = ops + 1
    /\ UNCHANGED <<topoVars, confVars, arpVars, ospfVars, callVars>>

\* "no ip static-route <cidr>" on the CLI of switch s; hist keeps the table from
\* before the install when this removes the route just installed
remove_route(s, ip_cidr) ==
    /\ stack = <<>>
    /\ routing_table' = [routing_table EXCEPT ![s] = RemoveRouteTable(@, ip_cidr)]
    /\ hist' = IF hist.op = "add_route" /\ hist.sw = s /\ hist.key = ip_cidr
               THEN [op |-> "add_remove", sw |-> s, key |-> ip_cidr, before |-> hist.before]
               ELSE NoHist
    /\ raised' = None
    /\ ops' = ops + 1
    /\ UNCHANGED <<topoVars, confVars, arpVars, ospfVars, callVars>>

\* a call of _lookup_route(dst_ip) on switch s, its result kept in hist
LookupCall(s, dst_ip) ==
    /\ stack = <<>>
    /\ hist' = [op |-> "lookup", sw |-> s, dst_ip |-> dst_ip,
                result |-> lookup_route(routing_table[s], dst_ip)]
    /\ raised' = IF lookup_route(routing_table[s], dst_ip) = LookupError
                 THEN "ValueError" ELSE None
    /\ ops' = ops + 1
    /\ UNCHANGED <<topoVars, confVars, routing_table, arpVars, ospfVars, callVars>>

AddRouteCmd ==
    \E s \in Switches, ip_cidr \in RouteCidrs, next_hop \in Gateways :
        ops < MaxCliOps /\ add_route(s, ip_cidr, next_hop)

RemoveRouteCmd ==
    \E s \in Switches, ip_cidr \in RouteCidrs :
        ops < MaxCliOps /\ remove_route(s, ip_cidr)

LookupCmd ==
    \E s \in Switches, dst_ip \in LookupIps :
        ops < MaxCliOps /\ LookupCall(s, dst_ip)

NextRoute == AddRouteCmd \/ RemoveRouteCmd \/ LookupCmd

SpecRoute == InitLab /\ [][NextRoute]_vars

(***************************************************************************)
(* Longest-prefix match, as the specification words it                     *)
(***************************************************************************)

\* the items of rt whose network holds dst_ip
Matching(rt, dst_ip) == {i \in 1..Len(rt) : InNetwork(dst_ip, rt[i].key)}

\* the matching item with the greatest prefix length
LongestMatch(rt, dst_ip) ==
    CHOOSE i \in Matching(rt, dst_ip) :
        \A j \in Matching(rt, dst_ip) : rt[j].key[2] <= rt[i].key[2]

\* C3: every _lookup_route call returns the entry with the greatest prefix length
\* among the entries whose network contains the destination, whatever the order in
\* which the routes were installed, and returns no route exactly when no entry
\* contains the destination.
C3_LookupIsLongestPrefix ==
    hist.op = "lookup" =>
        LET rt == routing_table[hist.sw]
        IN  IF Matching(rt, hist.dst_ip) = {}
            THEN hist.result = NotFound
            ELSE LET best == rt[LongestMatch(rt, hist.dst_ip)]
                 IN  hist.result = Found(best.next_hop, best.route_type)

\* C6: add_route(R, gateway) followed by remove_route(R) leaves the routing table
\* as it was before the install, whatever entries it held.
C6_AddRemoveRoundTrip ==
    hist.op = "add_remove" => routing_table[hist.sw] = hist.before

(***************************************************************************)
(* OSPF: OSPFEngine and the OSPF methods of OmniSwitch                     *)
(***************************************************************************)

\* Port.speed_mbps, which nothing changes
SpeedMbps == 100

\* OSPFEngine.reference_bw
ReferenceBw == 100000

\* the cost of a port without bandwidth
NoBandwidthCost == 65535

Max(a, b) == IF a >= b THEN a ELSE b

\* OSPFEngine.get_cost
get_cost(bandwidth_mbps) ==
    Max(1, IF bandwidth_mbps # 0 THEN ReferenceBw \div bandwidth_mbps ELSE NoBandwidthCost)

\* self.ports.values(), in the order of the dict
PortSeq == [i \in 1..NumPorts |-> i]

\* port.status == "up" and port.linked_node
IsUpLinked(s, p) == ports[s][p].status = "up" /\ ports[s][p].linked_node # None

UpLinkedPorts(s) == SelectSeq(PortSeq, LAMBDA p : IsUpLinked(s, p))

\* run_ospf, step 1: neighbors[port.linked_node] = cost for every up, linked port
RECURSIVE NeighborsFrom(_, _, _)
NeighborsFrom(s, ps, acc) ==
    IF ps = <<>> THEN acc
    ELSE NeighborsFrom(s, Tail(ps),
            DictSet(acc, [key |-> ports[s][Head(ps)].linked_node,
                          cost |-> get_cost(SpeedMbps)]))

Neighbors(s) == NeighborsFrom(s, UpLinkedPorts(s), <<>>)

\* run_ospf, step 2: the networks of the L3 interfaces
InterfaceSubnets(s) ==
    {InterfaceNetwork(l3_interfaces[s][i].ip, l3_interfaces[s][i].plen) :
        i \in 1..Len(l3_interfaces[s])}

\* calculate_routes: the edges G.add_edge receives, in order
RECURSIVE GraphEdges(_)
GraphEdges(db) ==
    IF db = <<>> THEN <<>>
    ELSE [i \in 1..Len(Head(db).links) |-> <<Head(db).key, Head(db).links[i].key>>]
            \o GraphEdges(Tail(db))

\* the neighbours of v in G, in the order of G's adjacency dict: the order in
\* which the edges first name them
Adjacent(edges, v) ==
    LET touches(i) == edges[i][1] = v \/ edges[i][2] = v
        other(i) == IF edges[i][1] = v THEN edges[i][2] ELSE edges[i][1]
        first == SelectSeq([i \in 1..Len(edges) |-> i],
                           LAMBDA i : /\ touches(i)
                                      /\ \A j \in 1..(i - 1) :
                                            ~(touches(j) /\ other(j) = other(i)))
    IN  [k \in 1..Len(first) |-> other(first[k])]

GraphNodes(edges) == {edges[i][1] : i \in 1..Len(edges)} \cup {edges[i][2] : i \in 1..Len(edges)}

\* nx.single_source_dijkstra_path with every weight equal: the nodes in the order
\* they are first reached, each with the path that reached it. The fringe and the
\* paths of the next round are worked out once, before the round starts.
RECURSIVE ShortestPaths(_, _, _)
ShortestPaths(edges, fringe, paths) ==
    IF fringe = <<>> THEN paths
    ELSE LET v == Head(fringe)
             fresh == SelectSeq(Adjacent(edges, v), LAMBDA u : ~DictHas(paths, u))
             found == [i \in 1..Len(fresh) |->
                          [key |-> fresh[i], path |-> Append(DictGet(paths, v).path, fresh[i])]]
         IN  CHOOSE all \in {ShortestPaths(edges, next, longer) :
                                next \in {Tail(fringe) \o fresh},
                                longer \in {paths \o found}} : TRUE

\* a result of _get_next_hop_ip_to
HopIp(ip) == [status |-> "ip", ip |-> ip]

HopNone == [status |-> "none"]

HopKeyError == [status |-> "KeyError"]

\* _get_next_hop_ip_to, the port-based interfaces: interface i of s is bound to a
\* port linked to neighbor_name
PortHopLocal(s, neighbor_name, i) ==
    /\ l3_interfaces[s][i].port_id # NoId
    /\ ports[s][l3_interfaces[s][i].port_id].linked_node = neighbor_name

\* interface j of the neighbour is bound to a port that links back to self.name
PortHopRemote(s, n, j) ==
    /\ l3_interfaces[n][j].port_id # NoId
    /\ ports[n][l3_interfaces[n][j].port_id].linked_node = name[s]

\* _get_next_hop_ip_to, the VLAN interfaces: interface i of s is on a VLAN that
\* exists and has a port linked to neighbor_name
VlanHopLocal(s, neighbor_name, i) ==
    /\ l3_interfaces[s][i].vlan # NoId
    /\ l3_interfaces[s][i].vlan \in DOMAIN vlans[s]
    /\ \E p \in vlans[s][l3_interfaces[s][i].vlan].ports :
          p \in PortIds /\ ports[s][p].linked_node = neighbor_name

VlanHopRemote(s, n, i, j) == l3_interfaces[n][j].vlan = l3_interfaces[s][i].vlan

Least(S) == CHOOSE x \in S : \A y \in S : x <= y

\* OmniSwitch._get_next_hop_ip_to
get_next_hop_ip_to(s, neighbor_name) ==
    LET locals == 1..Len(l3_interfaces[s])
        byPort == {i \in locals : PortHopLocal(s, neighbor_name, i)}
        byVlan == {i \in locals : VlanHopLocal(s, neighbor_name, i)}
    IN  IF (byPort # {} \/ byVlan # {}) /\ neighbor_name \notin graph[s] THEN HopKeyError
        ELSE LET remotes == 1..Len(l3_interfaces[neighbor_name])
                 portPairs == {i \in byPort : \E j \in remotes : PortHopRemote(s, neighbor_name, j)}
                 vlanPairs == {i \in byVlan : \E j \in remotes : VlanHopRemote(s, neighbor_name, i, j)}
             IN  IF portPairs # {}
                 THEN HopIp(l3_interfaces[neighbor_name][
                         Least({j \in remotes : PortHopRemote(s, neighbor_name, j)})].ip)
                 ELSE IF vlanPairs # {}
                 THEN HopIp(l3_interfaces[neighbor_name][
                         Least({j \in remotes :
                                   VlanHopRemote(s, neighbor_name, Least(vlanPairs), j)})].ip)
                 ELSE HopNone

\* the elements of the set S in the order ord lists them: the iteration order of a
\* Python set of strings, which the hash seed of the process decides
SetInOrder(S, ord) == SelectSeq(ord, LAMBDA x : x \in S)

\* calculate_routes, the inner loop: the subnets of one router that the table
\* has no route for yet go last, in their order
ImportSubnets(table, subnets, next_hop_ip) ==
    LET new == SelectSeq(subnets, LAMBDA subnet : ~DictHas(table, subnet))
    IN  table \o [i \in 1..Len(new) |->
                     [key |-> new[i], next_hop |-> next_hop_ip, cost |-> get_cost(SpeedMbps)]]

\* calculate_routes, the loop over paths.items(): the table built so far and the
\* KeyError that ends it (current_switch.graph.nodes[dst_router])
RECURSIVE ImportRouters(_, _, _, _)
ImportRouters(s, paths, table, ord) ==
    IF paths = <<>> THEN [table |-> table, raised |-> None]
    ELSE LET dst_router == Head(paths).key
             hop == get_next_hop_ip_to(s, Head(paths).path[2])
         IN  IF dst_router = s THEN ImportRouters(s, Tail(paths), table, ord)
             ELSE IF hop.status = "KeyError" THEN [table |-> table, raised |-> "KeyError"]
             ELSE IF hop.status = "none" THEN ImportRouters(s, Tail(paths), table, ord)
             ELSE IF dst_router \notin graph[s] THEN [table |-> table, raised |-> "KeyError"]
             ELSE CHOOSE result \in
                     {ImportRouters(s, Tail(paths), longer, ord) :
                         longer \in {ImportSubnets(table,
                                         SetInOrder(connected_subnets[dst_router], ord),
                                         hop.ip)}} : TRUE

\* OSPFEngine.calculate_routes on switch s with the LSDB db: the new
\* OSPFEngine.routing_table and the exception raised, if any
calculate_routes(s, db, ord) ==
    CHOOSE result \in
        {IF s \notin GraphNodes(edges)
         THEN [table |-> ospf_routing_table[s], raised |-> None]
         ELSE CHOOSE imported \in
                 {ImportRouters(s, paths, <<>>, ord) :
                     paths \in {ShortestPaths(edges, <<s>>, <<[key |-> s, path |-> <<s>>]>>)}} :
                 TRUE :
            edges \in {GraphEdges(db)}} : TRUE

\* a redistribution that installs every OSPF route, whatever the table holds
RECURSIVE RedistributeOverwriting(_, _)
RedistributeOverwriting(rt, ospf_routes) ==
    IF ospf_routes = <<>> THEN rt
    ELSE RedistributeOverwriting(
            DictSet(rt, Route(Head(ospf_routes).key, IpHop(Head(ospf_routes).next_hop), "ospf")),
            Tail(ospf_routes))

\* OmniSwitch.redistribute_ospf_routes: the OSPF routes for networks the routing
\* table has no entry for go last, in the order of the OSPF table
redistribute_ospf_routes(rt, ospf_routes) ==
    LET new == SelectSeq(ospf_routes, LAMBDA route : ~DictHas(rt, route.key))
    IN  rt \o [i \in 1..Len(new) |-> Route(new[i].key, IpHop(new[i].next_hop), "ospf")]

\* lsa != self.ospf.lsdb[from_node]: Python compares dicts without their order
SameDict(d, e) == {d[i] : i \in 1..Len(d)} = {e[i] : i \in 1..Len(e)}

\* the port.linked_node of the up, linked ports of s, in port order
LinkedNodes(s) == [i \in 1..Len(UpLinkedPorts(s)) |-> ports[s][UpLinkedPorts(s)[i]].linked_node]

\* the networks a switch of the lab can be connected to, and the orders in which a
\* Python set may list them
LabSubnets ==
    UNION {{InterfaceNetwork(LabInterfaces[s][i].ip, LabInterfaces[s][i].plen) :
               i \in 1..Len(LabInterfaces[s])} : s \in Switches}

SetOrders ==
    {ord \in [1..Cardinality(LabSubnets) -> LabSubnets] :
        \A i, j \in 1..Cardinality(LabSubnets) : i # j => ord[i] # ord[j]}

\* the stack frames of the OSPF calls
ExchangeFrame(s, targets, from_node, lsa) ==
    [fn |-> "exchange_ospf_lsa", sw |-> s, targets |-> targets, from_node |-> from_node,
     lsa |-> lsa]

ReceiveLsaFrame(s, from_node, lsa) ==
    [fn |-> "receive_lsa", sw |-> s, from_node |-> from_node, lsa |-> lsa]

FloodFrame(s, targets, from_node, lsa) ==
    [fn |-> "flood_lsa", sw |-> s, targets |-> targets, from_node |-> from_node, lsa |-> lsa]

Top == Head(stack)

Running(fn) == stack # <<>> /\ Top.fn = fn

\* how many links the topology has: a link joins two linked ports
LinkCount ==
    (Cardinality({sp \in Switches \X PortIds : ports[sp[1]][sp[2]].linked_node # None}) + 1)
        \div 2

\* an exception leaves every frame: nothing on the stack catches it
Raise(exception) ==
    /\ stack' = <<>>
    /\ raised' = exception

\* calculate_routes and redistribute_ospf_routes on switch s, calc being what
\* calculate_routes returned: steps 5 and 6 of run_ospf and the "if updated" block
\* of receive_lsa. A KeyError of calculate_routes leaves the routing table as it was.
Recompute(s, calc) ==
    /\ ospf_routing_table' = [ospf_routing_table EXCEPT ![s] = calc.table]
    /\ routing_table' =
          IF calc.raised # None THEN routing_table
          ELSE [routing_table EXCEPT ![s] = redistribute_ospf_routes(@, calc.table)]

\* OmniSwitch.run_ospf, steps 1 to 3 and the first statement of exchange_ospf_lsa
run_ospf(s) ==
    /\ stack = <<>>
    /\ ospf_neighbors' = [ospf_neighbors EXCEPT ![s] = Neighbors(s)]
    /\ connected_subnets' = [connected_subnets EXCEPT ![s] = InterfaceSubnets(s)]
    /\ lsdb' = [lsdb EXCEPT ![s] = DictSet(@, [key |-> s, links |-> Neighbors(s)])]
    /\ IF DictHas(lsdb'[s], name[s])
       THEN /\ stack' = <<ExchangeFrame(s, LinkedNodes(s), name[s],
                                        DictGet(lsdb'[s], name[s]).links)>>
            /\ raised' = None
       ELSE Raise("KeyError")
    /\ hist' = [op |-> "run_ospf", sw |-> s, calls |-> 0, refloods |-> 0]
    /\ ops' = ops + 1
    /\ UNCHANGED <<topoVars, confVars, routing_table, arpVars, ospf_routing_table, ret, now, ping>>

\* a call neighbor.receive_lsa(from_node, lsa) by the frame on top, whose remaining
\* targets become rest
CallReceiveLsa(frame, rest) ==
    IF Head(frame.targets) \notin graph[frame.sw]
    THEN Raise("KeyError") /\ UNCHANGED hist
    ELSE /\ stack' = <<ReceiveLsaFrame(Head(frame.targets), frame.from_node, frame.lsa),
                       [frame EXCEPT !.targets = rest]>> \o Tail(stack)
         /\ hist' = [hist EXCEPT !.calls = @ + 1]
         /\ UNCHANGED raised

\* exchange_ospf_lsa: the loop over the ports, then steps 5 and 6 of run_ospf
ExchangeStep ==
    /\ Running("exchange_ospf_lsa")
    /\ IF Top.targets # <<>>
       THEN /\ CallReceiveLsa(Top, Tail(Top.targets))
            /\ UNCHANGED <<routing_table, ospf_routing_table>>
       ELSE \E ord \in SetOrders :
            \E calc \in {calculate_routes(Top.sw, lsdb[Top.sw], ord)} :
                /\ Recompute(Top.sw, calc)
                /\ stack' = Tail(stack)
                /\ raised' = calc.raised
                /\ UNCHANGED hist
    /\ UNCHANGED <<topoVars, confVars, arpVars, lsdb, ospf_neighbors, connected_subnets,
                   ret, now, ops, ping>>

\* a receive_lsa that accepts every LSA it is handed
LsaAlwaysChanged(s, from_node, lsa) == TRUE

\* receive_lsa: "if from_node not in lsdb or lsdb[from_node] != lsa"
LsaChanged(s, from_node, lsa) ==
    \/ ~DictHas(lsdb[s], from_node)
    \/ ~SameDict(DictGet(lsdb[s], from_node).links, lsa)

\* receive_lsa: the neighbours the accepted LSA is forwarded to
FloodTargets(s, from_node) == SelectSeq(LinkedNodes(s), LAMBDA n : n # from_node)

\* OmniSwitch.receive_lsa up to its flooding loop
ReceiveLsaStep ==
    /\ Running("receive_lsa")
    /\ IF LsaChanged(Top.sw, Top.from_node, Top.lsa)
       THEN \E ord \in SetOrders :
            \E db \in {DictSet(lsdb[Top.sw], [key |-> Top.from_node, links |-> Top.lsa])} :
            \E calc \in {calculate_routes(Top.sw, db, ord)} :
                /\ lsdb' = [lsdb EXCEPT ![Top.sw] = db]
                /\ Recompute(Top.sw, calc)
                /\ IF calc.raised # None
                   THEN Raise(calc.raised) /\ UNCHANGED hist
                   ELSE /\ stack' = <<FloodFrame(Top.sw, FloodTargets(Top.sw, Top.from_node),
                                                 Top.from_node, Top.lsa)>> \o Tail(stack)
                        /\ hist' = [hist EXCEPT !.refloods = @ + 1]
                        /\ UNCHANGED raised
       ELSE /\ stack' = Tail(stack)
            /\ UNCHANGED <<lsdb, routing_table, ospf_routing_table, raised, hist>>
    /\ UNCHANGED <<topoVars, confVars, arpVars, ospf_neighbors, connected_subnets,
                   ret, now, ops, ping>>

\* receive_lsa: the flooding loop
FloodStep ==
    /\ Running("flood_lsa")
    /\ IF Top.targets # <<>>
       THEN CallReceiveLsa(Top, Tail(Top.targets))
       ELSE stack' = Tail(stack) /\ UNCHANGED <<raised, hist>>
    /\ UNCHANGED <<topoVars, confVars, routing_table, arpVars, ospfVars, ret, now, ops, ping>>

OspfStep == ExchangeStep \/ ReceiveLsaStep \/ FloodStep

\* a delete_vlan that deletes nothing
DeleteVlanForgotten(vl, vlan_id) == vl

\* VLANManager.delete_vlan
delete_vlan(vl, vlan_id) ==
    IF vlan_id \in DOMAIN vl THEN MapDel(vl, vlan_id) ELSE vl

\* VLANManager.assign_port
assign_port(vl, vlan_id, port_id) ==
    IF vlan_id \in DOMAIN vl THEN [vl EXCEPT ![vlan_id].ports = @ \cup {port_id}] ELSE vl

\* the lab of load_config with each linked port made a member of the VLAN of its
\* link (vlan_manager.assign_port), which lets _get_next_hop_ip_to find the peers
LabVlanPorts ==
    [sw1 |-> assign_port(LabConfigured("sw1").vlans, 1, 1),
     sw2 |-> assign_port(assign_port(LabConfigured("sw2").vlans, 1, 1), 2, 2),
     sw3 |-> assign_port(LabConfigured("sw3").vlans, 2, 1)]

InitOspfLab ==
    /\ InitCommon
    /\ ports = LinkPorts(LinkPorts([s \in Switches |-> [p \in PortIds |-> NewPort]],
                                  "sw1", 1, "sw2", 1), "sw2", 2, "sw3", 1)
    /\ graph = LinkGraph(LinkGraph([s \in Switches |-> {}],
                                  "sw1", 1, "sw2", 1), "sw2", 2, "sw3", 1)
    /\ vlans = [s \in Switches |-> LabVlanPorts[s]]
    /\ l3_interfaces = [s \in Switches |-> LabConfigured(s).l3_interfaces]
    /\ routing_table = [s \in Switches |-> LabConfigured(s).routing_table]
    /\ arp_table = [s \in Switches |-> LabConfigured(s).arp_table]
    /\ mac_table = [s \in Switches |-> LabConfigured(s).mac_table]

\* how many commands are given in the OSPF lab
MaxOspfOps == 4

\* the links added to the lab: sw1:2 <--> sw3:2 closes the triangle,
\* sw1:2 <--> sw2:2 re-links sw2:2 and leaves sw3:1 pointing at sw2,
\* sw1:1 <--> sw3:2 takes sw1's only link to sw2 away
OspfLinks == {<<"sw1", 2, "sw3", 2>>, <<"sw1", 2, "sw2", 2>>, <<"sw1", 1, "sw3", 2>>}

\* the static routes installed in the OSPF lab are for the subnet of sw2 and sw3,
\* which sw1 learns from OSPF
OspfStaticCidrs == {Cidr(Ip(1, 2, 0), 24)}

OspfStaticGateways == {Ip(1, 1, 9), Ip(1, 2, 9)}

RunOspfCmd == \E s \in Switches : ops < MaxOspfOps /\ run_ospf(s)

OspfLinkCmd ==
    \E l \in OspfLinks :
        /\ stack = <<>>
        /\ ops < MaxOspfOps
        /\ link(l[1], l[2], l[3], l[4])

OspfAddRouteCmd ==
    \E s \in Switches, ip_cidr \in OspfStaticCidrs, next_hop \in OspfStaticGateways :
        ops < MaxOspfOps /\ add_route(s, ip_cidr, next_hop)

NextOspf ==
    \/ RunOspfCmd
    \/ OspfLinkCmd
    \/ OspfAddRouteCmd
    \/ ExchangeStep
    \/ ReceiveLsaStep
    \/ FloodStep

SpecOspf == InitOspfLab /\ [][NextOspf]_vars

\* the same, with every started call running on to its end
SpecOspfFair == InitOspfLab /\ [][NextOspf]_vars /\ WF_vars(OspfStep)

(***************************************************************************)
(* Claims about OSPF redistribution and flooding                           *)
(***************************************************************************)

\* a step of run_ospf or of a receive_lsa it causes
OspfCall == RunOspfCmd \/ OspfStep

\* table "after" holds every entry of "before" unchanged and in place, and
\* whatever it holds more is an ospf route for a network "before" had no entry for
OnlyOspfAdded(before, after) ==
    /\ Len(before) <= Len(after)
    /\ SubSeq(after, 1, Len(before)) = before
    /\ \A i \in (Len(before) + 1)..Len(after) :
          after[i].route_type = "ospf" /\ ~DictHas(before, after[i].key)

\* C4: OSPF redistribution never overwrites: across every step of run_ospf and of
\* receive_lsa each routing-table entry that existed keeps its next hop and its
\* provenance, and the only entries added are ospf routes for networks that had
\* no entry.
C4_RedistributionNeverOverwrites ==
    [][OspfCall => \A s \in Switches : OnlyOspfAdded(routing_table[s], routing_table'[s])]_vars

\* a switch whose OSPF engine computed a route for a network the routing table
\* already had (it stays connected) and a route for a new network (added as ospf)
C4_Witness ==
    \E s \in Switches :
        /\ stack = <<>> /\ hist.op = "run_ospf" /\ raised = None
        /\ \E i \in 1..Len(ospf_routing_table[s]) :
              /\ DictHas(routing_table[s], ospf_routing_table[s][i].key)
              /\ DictGet(routing_table[s], ospf_routing_table[s][i].key).route_type = "connected"
        /\ \E i \in 1..Len(routing_table[s]) : routing_table[s][i].route_type = "ospf"

\* the entry of rt for N is static with gateway g
IsStatic(rt, N, g) == DictHas(rt, N) /\ DictGet(rt, N) = Route(N, IpHop(g), "static")

\* C5: static beats OSPF in either order: add_route(N, g) leaves a static entry
\* for N with gateway g, whatever the table held for N, and that entry stays
\* through every later step (run_ospf, receive_lsa, link) until add_route is
\* given another gateway for N.
C5_StaticBeatsOspf ==
    [][\A s \in Switches, N \in OspfStaticCidrs, g \in OspfStaticGateways :
          /\ add_route(s, N, g) => IsStatic(routing_table'[s], N, g)
          /\ (IsStatic(routing_table[s], N, g)
                 /\ ~(\E h \in OspfStaticGateways \ {g} : add_route(s, N, h)))
             => IsStatic(routing_table'[s], N, g)]_vars

\* a run_ospf has ended on a switch whose OSPF engine holds a route for N through
\* a neighbour while the routing table has the static route for N
C5_Witness ==
    \E s \in Switches, N \in OspfStaticCidrs, g \in OspfStaticGateways :
        /\ stack = <<>> /\ hist.op = "run_ospf" /\ raised = None
        /\ IsStatic(routing_table[s], N, g)
        /\ DictHas(ospf_routing_table[s], N)
        /\ DictGet(ospf_routing_table[s], N).next_hop # g

\* add_route has just replaced the ospf route OSPF had installed for N
C5_StaticAfterOspf ==
    /\ hist.op = "add_route"
    /\ DictHas(hist.before, hist.key)
    /\ DictGet(hist.before, hist.key).route_type = "ospf"
    /\ DictGet(routing_table[hist.sw], hist.key).route_type = "static"

\* the receive_lsa on top of the stack goes on to its flooding loop
Refloods ==
    /\ Running("receive_lsa")
    /\ Len(stack') = Len(stack)
    /\ stack'[1].fn = "flood_lsa"

\* C10: LSA flooding terminates, cycles included: every cascade started by a
\* run_ospf ends; a switch goes on to re-flood an LSA only when its LSDB entry
\* for the originator changed; and the switches that re-flood the LSA of one
\* run_ospf are at most as many as the links.
C10_FloodingTerminates ==
    /\ [](hist.op = "run_ospf" => hist.refloods <= LinkCount)
    /\ [][Refloods => LET s == Top.sw
                          from_node == Top.from_node
                      IN  /\ DictHas(lsdb'[s], from_node)
                          /\ \/ ~DictHas(lsdb[s], from_node)
                             \/ ~SameDict(DictGet(lsdb[s], from_node).links,
                                          DictGet(lsdb'[s], from_node).links)]_vars
    /\ (stack # <<>>) ~> (stack = <<>>)

\* in the triangle, a run_ospf has ended after two switches re-flooded its LSA
\* and the last receive_lsa calls found nothing new
C10_Witness ==
    /\ stack = <<>> /\ hist.op = "run_ospf" /\ raised = None
    /\ "sw3" \in graph["sw1"]
    /\ hist.refloods = 2
    /\ hist.calls > hist.refloods

\* the switch whose call delivered the LSA to the receive_lsa (or to the flooding
\* loop) on top of the stack: the caller, one frame down
Deliverer == stack[2].sw

\* the frame on top calls receive_lsa of a neighbour
CallsReceiveLsa ==
    /\ stack # <<>>
    /\ Len(stack') = Len(stack) + 1
    /\ stack'[1].fn = "receive_lsa"

\* C11: split horizon: a switch that accepts a changed LSA forwards it to every
\* up-linked neighbour except the one that delivered it, and never sends an LSA
\* back to the switch it just received it from, whoever originated the LSA.
C11_SplitHorizon ==
    /\ [][Refloods =>
             stack'[1].targets = SelectSeq(LinkedNodes(Top.sw), LAMBDA n : n # Deliverer)]_vars
    /\ [][(Running("flood_lsa") /\ CallsReceiveLsa) => stack'[1].sw # Deliverer]_vars

\* the topology is the chain sw1 - sw2 - sw3 of load_config, every linked port a
\* member of the VLAN of its link
ChainTopology ==
    /\ \A s \in Switches, p \in PortIds :
          ports[s][p].linked_node =
              LinkPorts(LinkPorts([t \in Switches |-> [q \in PortIds |-> NewPort]],
                                  "sw1", 1, "sw2", 1), "sw2", 2, "sw3", 1)[s][p].linked_node
    /\ vlans = [s \in Switches |-> LabVlanPorts[s]]

\* run_ospf has been run on switch s (it is the only writer of connected_subnets)
RanOspf(s) == connected_subnets[s] = InterfaceSubnets(s)

\* s has a route for network N: the ospf route through next_hop, or a route it
\* already had
HoldsRoute(s, N, next_hop) ==
    /\ DictHas(routing_table[s], N)
    /\ \/ DictGet(routing_table[s], N).route_type # "ospf"
       \/ DictGet(routing_table[s], N) = Route(N, IpHop(next_hop), "ospf")

\* C12: once run_ospf has been run on every switch of the chain sw1 - sw2 - sw3,
\* every switch holds a route for every connected subnet of every router, sw1
\* holds 10.1.2.0/24 -> 10.1.1.2 (ospf) unless it had a route for that subnet,
\* and the route computation of the last run_ospf completed.
C12_OspfRoutesForEveryReachableSubnet ==
    (/\ stack = <<>>
     /\ ChainTopology
     /\ \A s \in Switches : RanOspf(s))
    => /\ \A s \in Switches, t \in Switches :
             \A N \in InterfaceSubnets(t) : DictHas(routing_table[s], N)
       /\ HoldsRoute("sw1", Cidr(Ip(1, 2, 0), 24), Ip(1, 1, 2))
       /\ hist.op = "run_ospf" => raised = None

\* C13: in every reachable state the lsdb[self] of a switch that has one is the
\* map {linked peer -> cost} over the ports of the switch that are up and linked
\* now: it follows every link operation.
C13_LsdbSelfIsLiveAdjacency ==
    \A s \in Switches :
        DictHas(lsdb[s], name[s]) => SameDict(DictGet(lsdb[s], name[s]).links, Neighbors(s))

(***************************************************************************)
(* Forwarding: send_packet, receive_packet and the ARP machinery           *)
(***************************************************************************)

\* ttl of the reply _handle_ping sends, ttl of the requests ping sends, the ping
\* count, the seconds an ARP request is not repeated for, the seconds a queued
\* packet is kept for
PingReplyTtl == 10

PingTtl == 118

PingCount == 4

ArpRequestInterval == 1

ArpQueueTimeout == 5

\* Packet(src_ip, dst_ip, src_mac, dst_mac, vlan_tag, payload): dst_mac and
\* vlan_tag are written and copied but never read, and are left out
Packet(src_ip, dst_ip, src_mac, payload) ==
    [src_ip |-> src_ip, dst_ip |-> dst_ip, src_mac |-> src_mac, payload |-> payload]

Payload(type, target_ip, mac, seq) ==
    [type |-> type, target_ip |-> target_ip, mac |-> mac, seq |-> seq]

\* _send_arp_request: the request
ArpRequest(src_ip, target_ip, src_mac) ==
    Packet(src_ip, target_ip, src_mac, Payload("arp-request", target_ip, None, 0))

\* _handle_arp_request: the reply of the interface that owns the target
ArpReply(request, iface) ==
    Packet(request.payload.target_ip, request.src_ip, iface.mac_address,
           Payload("arp-reply", 0, iface.mac_address, 0))

\* ping: the echo request
PingRequest(src_ip, dst_ip, src_mac, seq) ==
    Packet(src_ip, dst_ip, src_mac, Payload("ping", 0, None, seq))

\* _handle_ping: the echo reply
PingReply(request, iface) ==
    Packet(request.dst_ip, request.src_ip, iface.mac_address,
           Payload("ping-reply", 0, None, request.payload.seq))

\* a _learn_arp that takes every packet for an ARP packet
IsArpAny(packet) == TRUE

\* _learn_arp: "only learn from ARP packets"
IsArp(packet) == packet.payload.type \in {"arp-request", "arp-reply"}

\* the L3 interfaces of s whose address is ip, and _is_local_destination
Owners(s, ip) == {i \in 1..Len(l3_interfaces[s]) : l3_interfaces[s][i].ip = ip}

is_local_destination(s, ip) == Owners(s, ip) # {}

FirstOwner(s, ip) == l3_interfaces[s][Least(Owners(s, ip))]

\* the ports of neighbor whose linked_node is the name of s, in port order
ReversePorts(neighbor, s) ==
    SelectSeq(PortSeq, LAMBDA p : ports[neighbor][p].linked_node = name[s])

\* _send_arp_request: every up, linked port, and behind it every port of the
\* neighbour that links back
RequestTargets(s) ==
    [i \in 1..Len(UpLinkedPorts(s)) |->
        [node |-> ports[s][UpLinkedPorts(s)[i]].linked_node,
         in_ports |-> ReversePorts(ports[s][UpLinkedPorts(s)[i]].linked_node, s)]]

\* _handle_arp_request, step 2: every up, linked port but the ingress, and
\* behind it the first port of the neighbour that links back
FloodPorts(s, in_port_id) == SelectSeq(UpLinkedPorts(s), LAMBDA p : p # in_port_id)

FirstOf(seq) == IF seq = <<>> THEN <<>> ELSE <<Head(seq)>>

ArpFloodTargets(s, in_port_id) ==
    [i \in 1..Len(FloodPorts(s, in_port_id)) |->
        [node |-> ports[s][FloodPorts(s, in_port_id)[i]].linked_node,
         in_ports |-> FirstOf(ReversePorts(ports[s][FloodPorts(s, in_port_id)[i]].linked_node, s))]]

\* the stack frames of the forwarding calls
SendFrame(s, packet, ttl, exclude_port) ==
    [fn |-> "send_packet", sw |-> s, packet |-> packet, ttl |-> ttl,
     exclude_port |-> exclude_port]

RouteFrame(fn, s, packet, key, ttl, exclude_port) ==
    [fn |-> fn, sw |-> s, packet |-> packet, key |-> key, ttl |-> ttl,
     exclude_port |-> exclude_port, pc |-> "start", current_time |-> now]

\* a receive_packet that is handed the TTL the sending call has
ReceiveFrameTtlKept(s, packet, ttl, in_port_id) ==
    [fn |-> "receive_packet", sw |-> s, packet |-> packet, ttl |-> ttl + 1,
     in_port_id |-> in_port_id, pc |-> "start", queued |-> <<>>, dst_is_local |-> FALSE]

ReceiveFrame(s, packet, ttl, in_port_id) ==
    [fn |-> "receive_packet", sw |-> s, packet |-> packet, ttl |-> ttl,
     in_port_id |-> in_port_id, pc |-> "start", queued |-> <<>>, dst_is_local |-> FALSE]

LoopFrame(fn, s, targets, packet, ttl) ==
    [fn |-> fn, sw |-> s, targets |-> targets, packet |-> packet, ttl |-> ttl]

\* the frame on top ends with the value v
Return(v) ==
    /\ stack' = Tail(stack)
    /\ ret' = v
    /\ UNCHANGED raised

\* "return callee(...)": the frame on top gives way to the call
Replace(frame) ==
    /\ stack' = <<frame>> \o Tail(stack)
    /\ UNCHANGED <<ret, raised>>

\* the frame on top, now "frame", calls callee and waits for it
Push(callee, frame) ==
    /\ stack' = <<callee, frame>> \o Tail(stack)
    /\ UNCHANGED <<ret, raised>>

Throw(exception) == Raise(exception) /\ UNCHANGED ret

\* _forward: send_packet(packet, ttl - 1, exclude_port = in_port_id)
Forward(f) == Replace(SendFrame(f.sw, f.packet, f.ttl - 1, f.in_port_id))

\* what no forwarding step changes
fwdFixed == <<topoVars, confVars, routing_table, ospfVars, now, ops, ping>>

\* the egresses of the packet under way: hist after packet has left switch s
\* through port p. A packet other than the one hist follows starts a new path.
LogEgress(h, packet, s, p) ==
    IF h.op = "egress" /\ h.packet = packet
    THEN [h EXCEPT !.used = @ \cup {<<s, p>>}, !.repeated = @ \/ (<<s, p>> \in h.used)]
    ELSE [op |-> "egress", packet |-> packet, used |-> {<<s, p>>}, repeated |-> FALSE]

\* OmniSwitch.send_packet
SendPacketStep ==
    /\ Running("send_packet")
    /\ \E r \in {lookup_route(routing_table[Top.sw], Top.packet.dst_ip)} :
          IF Top.ttl <= 0 THEN Return("False")
          ELSE IF r.status = "ValueError" THEN Throw("ValueError")
          ELSE IF r.status = "none" THEN Return("False")
          ELSE IF r.route_type = "connected"
          THEN Replace(RouteFrame("handle_connected_route", Top.sw, Top.packet,
                                  Top.packet.dst_ip, Top.ttl, Top.exclude_port))
          ELSE IF r.route_type \in {"static", "ospf"}
          THEN Replace(RouteFrame("handle_indirect_route", Top.sw, Top.packet,
                                  r.next_hop[2], Top.ttl, Top.exclude_port))
          ELSE Return("False")
    /\ UNCHANGED <<arpVars, hist, fwdFixed>>

\* self.arp_queue[key].append(item), arp_queue being a defaultdict(deque)
Enqueue(q, key, item) ==
    MapSet(q, key, IF key \in DOMAIN q THEN Append(q[key], item) ELSE <<item>>)

\* a rate limit that lets every ARP request through
RequestAlwaysDue(s, key) == TRUE

\* "if not last_sent or current_time - last_sent > 1"
RequestDue(s, key) ==
    \/ key \notin DOMAIN arp_request_timestamps[s]
    \/ now - arp_request_timestamps[s][key] > ArpRequestInterval

\* _handle_connected_route (direct) and _handle_indirect_route: the address to
\* resolve is f.key, the destination or the next hop
RouteStep(f, direct) ==
    IF f.pc = "requested"
    THEN /\ arp_request_timestamps' =
               [arp_request_timestamps EXCEPT ![f.sw] = MapSet(@, f.key, f.current_time)]
         /\ arp_queue' =
               [arp_queue EXCEPT ![f.sw] =
                   Enqueue(@, f.key, [packet |-> f.packet, ttl |-> f.ttl,
                                      timestamp |-> f.current_time])]
         /\ Return("True")
         /\ UNCHANGED <<arp_table, mac_table, ping_reply_received, hist>>
    ELSE IF f.key \notin DOMAIN arp_table[f.sw]
    THEN IF RequestDue(f.sw, f.key)
         THEN /\ Push(LoopFrame("send_arp_request", f.sw, RequestTargets(f.sw),
                                ArpRequest(f.packet.src_ip, f.key, f.packet.src_mac), f.ttl),
                      [f EXCEPT !.pc = "requested"])
              /\ UNCHANGED <<arpVars, hist>>
         ELSE /\ arp_queue' =
                    [arp_queue EXCEPT ![f.sw] =
                        Enqueue(@, f.key, [packet |-> f.packet, ttl |-> f.ttl,
                                           timestamp |-> f.current_time])]
              /\ Return("True")
              /\ UNCHANGED <<arp_table, mac_table, arp_request_timestamps,
                             ping_reply_received, hist>>
    ELSE LET port_id == arp_table[f.sw][f.key].port
         IN  /\ IF port_id \notin PortIds \/ ~IsUpLinked(f.sw, port_id)
                THEN Return("False") /\ UNCHANGED hist
                ELSE IF ports[f.sw][port_id].linked_node \notin graph[f.sw]
                THEN Throw("KeyError") /\ UNCHANGED hist
                ELSE LET neighbor == ports[f.sw][port_id].linked_node
                     IN  IF ~direct
                         THEN /\ Replace(ReceiveFrame(neighbor, f.packet, f.ttl - 1, port_id))
                              /\ hist' = LogEgress(hist, f.packet, f.sw, port_id)
                         ELSE IF ReversePorts(neighbor, f.sw) = <<>>
                         THEN Return("False") /\ UNCHANGED hist
                         ELSE /\ Replace(ReceiveFrame(neighbor, f.packet, f.ttl - 1,
                                                      Head(ReversePorts(neighbor, f.sw))))
                              /\ hist' = LogEgress(hist, f.packet, f.sw, port_id)
             /\ UNCHANGED arpVars

ConnectedRouteStep ==
    /\ Running("handle_connected_route")
    /\ RouteStep(Top, TRUE)
    /\ UNCHANGED fwdFixed

IndirectRouteStep ==
    /\ Running("handle_indirect_route")
    /\ RouteStep(Top, FALSE)
    /\ UNCHANGED fwdFixed

\* a loop over ports that hands f.packet to receive_packet of the neighbours, the
\* loop ending with the value v
LoopStep(f, v) ==
    IF f.targets = <<>> THEN Return(v)
    ELSE IF Head(f.targets).node \notin graph[f.sw] THEN Throw("KeyError")
    ELSE IF Head(f.targets).in_ports = <<>>
    THEN Replace([f EXCEPT !.targets = Tail(@)])
    ELSE Push(ReceiveFrame(Head(f.targets).node, f.packet, f.ttl - 1,
                           Head(Head(f.targets).in_ports)),
              [f EXCEPT !.targets = <<[Head(@) EXCEPT !.in_ports = Tail(@)]>> \o Tail(@)])

\* OmniSwitch._send_arp_request
ArpRequestStep ==
    /\ Running("send_arp_request")
    /\ LoopStep(Top, None)
    /\ UNCHANGED <<arpVars, hist, fwdFixed>>

\* OmniSwitch._handle_arp_request, step 2
ArpFloodStep ==
    /\ Running("flood_arp_request")
    /\ LoopStep(Top, "True")
    /\ UNCHANGED <<arpVars, hist, fwdFixed>>

\* self.arp_table[packet.src_ip] = (packet.src_mac, in_port_id), of _learn_arp and
\* of _handle_arp_reply
LearnArp(table, packet, in_port_id) ==
    MapSet(table, packet.src_ip, [mac |-> packet.src_mac, port |-> in_port_id])

\* a switch that learns the ARP entry and leaves its MAC table alone
LearnMacSkipped(table, packet, in_port_id) == table

\* self.mac_table[packet.src_mac] = in_port_id, of _learn_arp and of
\* _handle_arp_reply
LearnMac(table, packet, in_port_id) == MapSet(table, packet.src_mac, in_port_id)

\* OmniSwitch.receive_packet up to the first call it makes: the TTL check,
\* _learn_arp, and the handler of the payload
ReceivePacketStep ==
    /\ Running("receive_packet")
    /\ Top.pc = "start"
    /\ LET f == Top
           s == f.sw
           packet == f.packet
           type == packet.payload.type
           learns == IsArp(packet) /\ f.in_port_id \in PortIds
           learned_arp ==
               IF learns THEN LearnArp(arp_table[s], packet, f.in_port_id) ELSE arp_table[s]
           learned_mac ==
               IF learns THEN LearnMac(mac_table[s], packet, f.in_port_id) ELSE mac_table[s]
           dst_is_local == is_local_destination(s, packet.dst_ip)
       IN  IF f.ttl <= 1 THEN Return("False") /\ UNCHANGED arpVars
           ELSE /\ arp_table' =
                      [arp_table EXCEPT ![s] =
                          IF type = "arp-reply" THEN LearnArp(learned_arp, packet, f.in_port_id)
                          ELSE learned_arp]
                /\ mac_table' =
                      [mac_table EXCEPT ![s] =
                          IF type = "arp-reply" THEN LearnMac(learned_mac, packet, f.in_port_id)
                          ELSE learned_mac]
                /\ UNCHANGED arp_request_timestamps
                /\ IF type = "arp-request"
                   THEN /\ IF Owners(s, packet.payload.target_ip) # {}
                           THEN Push(SendFrame(s, ArpReply(packet,
                                                   FirstOwner(s, packet.payload.target_ip)),
                                               f.ttl - 1, NoId),
                                     [f EXCEPT !.pc = "handled"])
                           ELSE Push(LoopFrame("flood_arp_request", s,
                                               ArpFloodTargets(s, f.in_port_id), packet, f.ttl),
                                     [f EXCEPT !.pc = "handled"])
                        /\ UNCHANGED <<arp_queue, ping_reply_received>>
                   ELSE IF type = "arp-reply"
                   THEN /\ IF packet.src_ip \in DOMAIN arp_queue[s]
                           THEN /\ arp_queue' = [arp_queue EXCEPT ![s] = MapDel(@, packet.src_ip)]
                                /\ Replace([f EXCEPT !.pc = "drain",
                                                     !.queued = arp_queue[s][packet.src_ip],
                                                     !.dst_is_local = dst_is_local])
                           ELSE /\ UNCHANGED arp_queue
                                /\ IF dst_is_local THEN Return("True") ELSE Forward(f)
                        /\ UNCHANGED ping_reply_received
                   ELSE IF type = "ping"
                   THEN /\ IF dst_is_local
                           THEN Replace(SendFrame(s, PingReply(packet,
                                                               FirstOwner(s, packet.dst_ip)),
                                                  PingReplyTtl, NoId))
                           ELSE Forward(f)
                        /\ UNCHANGED <<arp_queue, ping_reply_received>>
                   ELSE IF dst_is_local
                   THEN /\ ping_reply_received' = [ping_reply_received EXCEPT ![s] = TRUE]
                        /\ Return("True")
                        /\ UNCHANGED arp_queue
                   ELSE Forward(f) /\ UNCHANGED <<arp_queue, ping_reply_received>>
    /\ UNCHANGED <<hist, fwdFixed>>

\* receive_packet of an arp-request: "return handled or self._forward(...)"
AfterArpRequestStep ==
    /\ Running("receive_packet")
    /\ Top.pc = "handled"
    /\ IF ret = "True" THEN Return("True") ELSE Forward(Top)
    /\ UNCHANGED <<arpVars, hist, fwdFixed>>

\* _handle_arp_reply: the loop over the packets that waited for the sender, then
\* the end of receive_packet
DrainStep ==
    /\ Running("receive_packet")
    /\ Top.pc = "drain"
    /\ IF Top.queued = <<>>
       THEN IF Top.dst_is_local THEN Return("True") ELSE Forward(Top)
       ELSE IF now - Head(Top.queued).timestamp <= ArpQueueTimeout
       THEN Push(RouteFrame("handle_connected_route", Top.sw, Head(Top.queued).packet,
                            Head(Top.queued).packet.dst_ip, Head(Top.queued).ttl, NoId),
                 [Top EXCEPT !.queued = Tail(@)])
       ELSE Replace([Top EXCEPT !.queued = Tail(@)])
    /\ UNCHANGED <<arpVars, hist, fwdFixed>>

ForwardStep ==
    \/ SendPacketStep
    \/ ConnectedRouteStep
    \/ IndirectRouteStep
    \/ ArpRequestStep
    \/ ArpFloodStep
    \/ ReceivePacketStep
    \/ AfterArpRequestStep
    \/ DrainStep

(***************************************************************************)
(* OmniSwitch.ping                                                         *)
(***************************************************************************)

\* no call is in progress
Idle == stack = <<>> /\ ping.pc \in {"idle", "done", "raised"}

\* two switches, each with a VLAN interface in 10.1.1.0/24; sw3 is there and has
\* neither a link nor an interface
PairConfigured(s) == LabSwitch(s, IF s = "sw3" THEN 0 ELSE 1)

\* the two switches are joined by the single link sw1:1 <--> sw2:1
PairTopology ==
    /\ \A s \in Switches : l3_interfaces[s] = PairConfigured(s).l3_interfaces
    /\ ports = LinkPorts([s \in Switches |-> [p \in PortIds |-> NewPort]], "sw1", 1, "sw2", 1)

\* no switch has an ARP entry it learned from a packet
NoLearnedArp ==
    \A s \in Switches : \A ip \in DOMAIN arp_table[s] : arp_table[s][ip].port = LocalPort

\* ping(dst_ip, writer) on switch s, up to its loop
ping_start(s, dst_ip) ==
    /\ Idle
    /\ ping' = IF l3_interfaces[s] = <<>> THEN NoPing
               ELSE [pc |-> "send", sw |-> s, dst_ip |-> dst_ip,
                     src_ip |-> l3_interfaces[s][1].ip,
                     src_mac |-> l3_interfaces[s][1].mac_address,
                     seq |-> 1, success_count |-> 0, cold |-> NoLearnedArp,
                     pair |-> PairTopology]
    /\ raised' = None
    /\ hist' = NoHist
    /\ ops' = ops + 1
    /\ UNCHANGED <<topoVars, confVars, routing_table, arpVars, ospfVars, stack, ret, now>>

\* ping: the head of the loop and "sent = self.send_packet(packet, ttl=118)"
PingSend ==
    /\ stack = <<>>
    /\ ping.pc = "send"
    /\ IF ping.seq > PingCount
       THEN /\ ping' = [ping EXCEPT !.pc = "done"]
            /\ UNCHANGED <<stack, ping_reply_received>>
       ELSE /\ ping_reply_received' = [ping_reply_received EXCEPT ![ping.sw] = FALSE]
            /\ stack' = <<SendFrame(ping.sw,
                                    PingRequest(ping.src_ip, ping.dst_ip, ping.src_mac,
                                                ping.seq),
                                    PingTtl, NoId)>>
            /\ ping' = [ping EXCEPT !.pc = "sent"]
    /\ hist' = NoHist
    /\ UNCHANGED <<topoVars, confVars, routing_table, arp_table, mac_table, arp_queue,
                   arp_request_timestamps, ospfVars, ret, now, raised, ops>>

\* the seconds the wait loop of ping has taken when it gives up: timeout is 1.0,
\* and time.time() is then one second past the send, or more
TimeoutWaits == {1, 2}

\* till when the clock is followed
MaxTime == 10

\* ping: after send_packet, "if not sent: continue", then the wait loop
PingWait ==
    /\ stack = <<>>
    /\ ping.pc = "sent"
    /\ IF raised # None
       THEN ping' = [ping EXCEPT !.pc = "raised"] /\ UNCHANGED now
       ELSE IF ret = "False"
       THEN ping' = [ping EXCEPT !.pc = "send", !.seq = @ + 1] /\ UNCHANGED now
       ELSE IF ping_reply_received[ping.sw]
       THEN /\ ping' = [ping EXCEPT !.pc = "send", !.seq = @ + 1, !.success_count = @ + 1]
            /\ UNCHANGED now
       ELSE \E d \in TimeoutWaits :
               /\ now + d <= MaxTime
               /\ now' = now + d
               /\ ping' = [ping EXCEPT !.pc = "send", !.seq = @ + 1]
    /\ UNCHANGED <<topoVars, confVars, routing_table, arpVars, ospfVars, stack, ret, raised,
                   ops, hist>>

(***************************************************************************)
(* The lab at work: pings, static routes, a link, time                     *)
(***************************************************************************)

InitPair ==
    /\ InitCommon
    /\ ports = [s \in Switches |-> [p \in PortIds |-> NewPort]]
    /\ graph = [s \in Switches |-> {}]
    /\ vlans = [s \in Switches |-> PairConfigured(s).vlans]
    /\ l3_interfaces = [s \in Switches |-> PairConfigured(s).l3_interfaces]
    /\ routing_table = [s \in Switches |-> PairConfigured(s).routing_table]
    /\ arp_table = [s \in Switches |-> PairConfigured(s).arp_table]
    /\ mac_table = [s \in Switches |-> PairConfigured(s).mac_table]

Init == InitPair \/ InitLab

\* how many commands are given
MaxFwdOps == 3

\* the addresses pinged: interfaces of the lab and an address nobody has
PingTargets == {Ip(1, 1, 1), Ip(1, 1, 2), Ip(1, 2, 3), Ip(1, 1, 9)}

\* the link of the pair
FwdLinks == {<<"sw1", 1, "sw2", 1>>}

\* static routes between the two subnets of the lab
FwdStaticRoutes ==
    {<<"sw1", Cidr(Ip(1, 2, 0), 24), Ip(1, 1, 2)>>, <<"sw3", Cidr(Ip(1, 1, 0), 24), Ip(1, 2, 2)>>}

\* the seconds that pass between two commands
Waits == {1, 6}

PingCmd ==
    \E s \in Switches, dst_ip \in PingTargets : ops < MaxFwdOps /\ ping_start(s, dst_ip)

FwdLinkCmd ==
    \E l \in FwdLinks : Idle /\ ops < MaxFwdOps /\ link(l[1], l[2], l[3], l[4])

FwdAddRouteCmd ==
    \E r \in FwdStaticRoutes : Idle /\ ops < MaxFwdOps /\ add_route(r[1], r[2], r[3])

TickCmd ==
    \E d \in Waits :
        /\ Idle
        /\ ops < MaxFwdOps
        /\ now + d <= MaxTime
        /\ now' = now + d
        /\ ops' = ops + 1
        /\ UNCHANGED <<topoVars, confVars, routing_table, arpVars, ospfVars, stack, ret,
                       raised, hist, ping>>

Next ==
    \/ PingCmd
    \/ FwdLinkCmd
    \/ FwdAddRouteCmd
    \/ TickCmd
    \/ PingSend
    \/ PingWait
    \/ SendPacketStep
    \/ ConnectedRouteStep
    \/ IndirectRouteStep
    \/ ArpRequestStep
    \/ ArpFloodStep
    \/ ReceivePacketStep
    \/ AfterArpRequestStep
    \/ DrainStep

Spec == Init /\ [][Next]_vars

(***************************************************************************)
(* Claims about ping and the ARP queue                                     *)
(***************************************************************************)

\* the ping that has ended went from one switch of the linked pair to the
\* interface of the other, and started when no ARP entry had been learned
PairPingDone ==
    /\ ping.pc = "done"
    /\ ping.pair
    /\ ping.cold
    /\ \/ ping.sw = "sw1" /\ ping.dst_ip = Ip(1, 1, 2)
       \/ ping.sw = "sw2" /\ ping.dst_ip = Ip(1, 1, 1)

\* C1: between two linked switches with interfaces in one subnet and no learned
\* ARP entry, ping(dst_ip, count=4) to the other's interface counts 4 replies
\* of 4, the first echo request included.
C1_PingCountsFourOfFour == PairPingDone => ping.success_count = PingCount

\* C2: in every quiescent state (no send or receive call in progress) no packet
\* waits in a switch's ARP queue for an address that switch has an ARP entry for.
C2_PendingDrainedOnceResolved ==
    stack = <<>> =>
        \A s \in Switches : \A ip \in DOMAIN arp_queue[s] :
            arp_queue[s][ip] # <<>> => ip \notin DOMAIN arp_table[s]

(***************************************************************************)
(* Claims about ARP and MAC learning                                       *)
(***************************************************************************)

C15_NonArpTrafficDoesNotLearn ==
    [][(arp_table' # arp_table \/ mac_table' # mac_table) =>
          /\ Running("receive_packet")
          /\ Top.packet.payload.type \in {"arp-request", "arp-reply"}
          /\ \A s \in Switches \ {Top.sw} :
                arp_table'[s] = arp_table[s] /\ mac_table'[s] = mac_table[s]]_vars

\* a switch has just received an echo request on a port and forwards it, and an
\* entry made of the packet's src_ip, src_mac and that port would have changed its
\* ARP table
C15_Witness ==
    /\ Running("send_packet")
    /\ Top.packet.payload.type = "ping"
    /\ Top.exclude_port \in PortIds
    /\ LearnArp(arp_table[Top.sw], Top.packet, Top.exclude_port) # arp_table[Top.sw]

(***************************************************************************)
(* Claims about the ARP rate limit and the pending queues                  *)
(***************************************************************************)

\* the route handler under way starts an ARP request of its own
SendsArpRequest ==
    /\ stack # <<>>
    /\ Top.fn \in {"handle_connected_route", "handle_indirect_route"}
    /\ Len(stack') = Len(stack) + 1
    /\ stack'[1].fn = "send_arp_request"

\* the route handler under way ends at "return True" of its unresolved branch
LeavesUnresolved ==
    /\ stack # <<>>
    /\ Top.fn \in {"handle_connected_route", "handle_indirect_route"}
    /\ Len(stack') = Len(stack) - 1
    /\ Top.pc = "requested" \/ Top.key \notin DOMAIN arp_table[Top.sw]

\* the packets that wait on switch s for address ip
Pending(s, ip) == IF ip \in DOMAIN arp_queue[s] THEN arp_queue[s][ip] ELSE <<>>

\* C16: a switch sends an ARP request for an unresolved address only when it has
\* sent none for that address or the last one is more than 1 s old, and no
\* request for the address is under way; the time of the request is recorded
\* when it has been sent; each packet to the unresolved address is appended to
\* the queue of that address, so that every waiting packet came at most 1 s
\* after the last request and none came before it without waiting: a burst
\* within 1 s makes one request and queues all its packets.
C16_ArpRequestsRateLimited ==
    /\ [][SendsArpRequest =>
             /\ \/ Top.key \notin DOMAIN arp_request_timestamps[Top.sw]
                \/ now - arp_request_timestamps[Top.sw][Top.key] > 1
             /\ \A i \in 1..Len(stack) :
                   ~(/\ stack[i].fn \in {"handle_connected_route", "handle_indirect_route"}
                     /\ stack[i].sw = Top.sw
                     /\ stack[i].key = Top.key
                     /\ stack[i].pc = "requested")]_vars
    /\ [][LeavesUnresolved =>
             \E f \in {Top} : \E old \in {Pending(f.sw, f.key)} :
                 /\ f.key \in DOMAIN arp_queue'[f.sw]
                 /\ arp_queue'[f.sw][f.key] =
                        Append(old, [packet |-> f.packet, ttl |-> f.ttl, timestamp |-> now])
                 /\ f.pc = "requested" => arp_request_timestamps'[f.sw][f.key] = now
                 /\ f.pc # "requested" => UNCHANGED arp_request_timestamps]_vars
    /\ [][arp_request_timestamps' # arp_request_timestamps
             => LeavesUnresolved /\ Top.pc = "requested"]_vars
    /\ [](\A s \in Switches : \A ip \in DOMAIN arp_queue[s] :
             \A i \in 1..Len(arp_queue[s][ip]) :
                 /\ ip \in DOMAIN arp_request_timestamps[s]
                 /\ arp_queue[s][ip][i].timestamp <= arp_request_timestamps[s][ip] + 1
                 /\ arp_request_timestamps[s][ip]
                        <= arp_queue[s][ip][Len(arp_queue[s][ip])].timestamp)

\* C16 happens: an address is unresolved, and two packets wait for it that came
\* within 1 s, the first with the only ARP request of the burst
C16_Witness ==
    \E s \in Switches : \E ip \in DOMAIN arp_queue[s] :
        /\ ip \notin DOMAIN arp_table[s]
        /\ Len(arp_queue[s][ip]) >= 2
        /\ arp_queue[s][ip][1].timestamp = arp_request_timestamps[s][ip]
        /\ arp_queue[s][ip][2].timestamp = arp_request_timestamps[s][ip] + 1
        /\ arp_queue[s][ip][1].packet # arp_queue[s][ip][2].packet

(***************************************************************************)
(* One switch pinging, with static routes and a link that comes late       *)
(***************************************************************************)

\* how many commands are given
MaxQueueOps == 4

\* till when the clock is followed
MaxQueueTime == 20

\* the addresses sw1 pings: the neighbour's, one behind the neighbour, one
\* nobody has and one of a subnet no switch is in
QueueTargets == {Ip(1, 1, 2), Ip(1, 2, 3), Ip(1, 1, 9), Ip(1, 3, 1)}

\* the static routes typed: of sw1 to the subnet behind its neighbour, of sw1 and
\* sw2 to 10.1.3.0/24 through each other, and one typed with the address of a
\* host for the address of its network
QueueStaticRoutes ==
    {<<"sw1", Cidr(Ip(1, 2, 0), 24), Ip(1, 1, 2)>>,
     <<"sw1", Cidr(Ip(1, 3, 0), 24), Ip(1, 1, 2)>>,
     <<"sw2", Cidr(Ip(1, 3, 0), 24), Ip(1, 1, 1)>>,
     <<"sw1", Cidr(Ip(1, 2, 5), 24), Ip(1, 1, 2)>>}

\* the seconds that pass between two commands
QueueWaits == {10}

QueuePingCmd ==
    \E dst_ip \in QueueTargets : ops < MaxQueueOps /\ ping_start("sw1", dst_ip)

QueueLinkCmd ==
    \E l \in FwdLinks : Idle /\ ops < MaxQueueOps /\ link(l[1], l[2], l[3], l[4])

QueueAddRouteCmd ==
    \E r \in QueueStaticRoutes : Idle /\ ops < MaxQueueOps /\ add_route(r[1], r[2], r[3])

QueueTickCmd ==
    \E d \in QueueWaits :
        /\ Idle
        /\ ops < MaxQueueOps
        /\ now + d <= MaxQueueTime
        /\ now' = now + d
        /\ ops' = ops + 1
        /\ UNCHANGED <<topoVars, confVars, routing_table, arpVars, ospfVars, stack, ret,
                       raised, hist, ping>>

\* vlan_manager.delete_vlan(1) on sw2, whose interface 10.1.1.2 is in VLAN 1
QueueDeleteVlanCmd ==
    \E s \in {"sw2"}, vlan_id \in {1} :
        /\ Idle
        /\ ops < MaxQueueOps
        /\ vlans' = [vlans EXCEPT ![s] = delete_vlan(@, vlan_id)]
        /\ ops' = ops + 1
        /\ UNCHANGED <<topoVars, name, l3_interfaces, routing_table, arpVars, ospfVars,
                       stack, ret, now, raised, hist, ping>>

NextQueue ==
    \/ QueueDeleteVlanCmd
    \/ QueuePingCmd
    \/ QueueLinkCmd
    \/ QueueAddRouteCmd
    \/ QueueTickCmd
    \/ PingSend
    \/ PingWait
    \/ SendPacketStep
    \/ ConnectedRouteStep
    \/ IndirectRouteStep
    \/ ArpRequestStep
    \/ ArpFloodStep
    \/ ReceivePacketStep
    \/ AfterArpRequestStep
    \/ DrainStep

SpecQueue == InitPair /\ [][NextQueue]_vars

(***************************************************************************)
(* Claims about the drain of a pending queue                               *)
(***************************************************************************)

\* receive_packet is about to handle an ARP reply
ReplyArrives ==
    /\ Running("receive_packet")
    /\ Top.pc = "start"
    /\ Top.ttl > 1
    /\ Top.packet.payload.type = "arp-reply"

\* the drain loop of _handle_arp_reply is at a packet
AtQueued == Running("receive_packet") /\ Top.pc = "drain" /\ Top.queued # <<>>

\* the drain loop has handed a packet to _handle_connected_route, which starts
Redelivers ==
    /\ Running("handle_connected_route")
    /\ Top.pc = "start"
    /\ Len(stack) >= 2
    /\ stack[2].fn = "receive_packet"
    /\ stack[2].pc = "drain"

\* C17: the ARP reply of address X takes the whole queue of X, in its order; the
\* drain goes through it from the head, drops a packet older than 5 s and hands
\* a younger one on, and the packet handed on is transmitted: it goes to the
\* receive_packet of a neighbour.
C17_DrainFifoWithExpiry ==
    /\ [][ReplyArrives =>
             \E f \in {Top} :
                 /\ Pending(f.sw, f.packet.src_ip) # <<>> =>
                       /\ stack'[1].pc = "drain"
                       /\ stack'[1].queued = Pending(f.sw, f.packet.src_ip)
                 /\ f.packet.src_ip \notin DOMAIN arp_queue'[f.sw]]_vars
    /\ [][AtQueued =>
             \E f \in {Top} :
                 IF now - Head(f.queued).timestamp > 5
                 THEN stack' = <<[f EXCEPT !.queued = Tail(@)]>> \o Tail(stack)
                 ELSE /\ Len(stack') = Len(stack) + 1
                      /\ stack'[2] = [f EXCEPT !.queued = Tail(@)]
                      /\ stack'[1].fn = "handle_connected_route"
                      /\ stack'[1].packet = Head(f.queued).packet
                      /\ stack'[1].ttl = Head(f.queued).ttl]_vars
    /\ [][Redelivers =>
             \E f \in {Top} :
                 /\ Len(stack') = Len(stack)
                 /\ stack'[1].fn = "receive_packet"
                 /\ stack'[1].sw # f.sw
                 /\ stack'[1].packet = f.packet
                 /\ UNCHANGED arp_queue]_vars

\* C18: a packet that waits for an address is removed once it is older than
\* 5 s, reply or no reply: when no call is under way, no queue holds a packet
\* sent 10 s ago or earlier.
C18_PendingExpiresWithoutReply ==
    Idle =>
        \A s \in Switches : \A ip \in DOMAIN arp_queue[s] :
            \A i \in 1..Len(arp_queue[s][ip]) :
                now - arp_queue[s][ip][i].timestamp < 10

(***************************************************************************)
(* Claims about forwarding as a whole                                      *)
(***************************************************************************)

\* C19: forwarding is loop-free per packet: whatever the routes, static ones
\* included, a packet leaves no switch twice through the same port.
C19_NoEgressUsedTwice == hist.op = "egress" => ~hist.repeated

\* C20: forwarding never raises to its caller: no exception leaves send_packet
\* or receive_packet, and the send_packet that ping called has returned a boolean.
C20_ForwardingNeverRaises ==
    /\ raised = None
    /\ (stack = <<>> /\ ping.pc = "sent") => ret \in {"True", "False"}

(***************************************************************************)
(* Claims about configuration errors                                       *)
(***************************************************************************)

\* C22: "ip static-route" with a CIDR that is no network (host bits set) is
\* rejected: the routing table stays as it was, and so does every lookup on
\* that switch.
C22_MalformedRouteRejected ==
    [][\A r \in QueueStaticRoutes :
          (~IsNetwork(r[2]) /\ add_route(r[1], r[2], r[3]))
          => /\ routing_table' = routing_table
             /\ \A dst_ip \in QueueTargets :
                   lookup_route(routing_table'[r[1]], dst_ip)
                       = lookup_route(routing_table[r[1]], dst_ip)]_vars

(***************************************************************************)
(* VLANManager and create_vlan_interface at work                           *)
(***************************************************************************)

\* VLANManager.edit_vlan
edit_vlan(vl, vlan_id, vname) ==
    IF vlan_id \in DOMAIN vl THEN [vl EXCEPT ![vlan_id].name = vname] ELSE vl

\* VLANManager.remove_port
remove_port(vl, vlan_id, port_id) ==
    IF vlan_id \in DOMAIN vl THEN [vl EXCEPT ![vlan_id].ports = @ \ {port_id}] ELSE vl

\* the tables of switch s that create_vlan_interface reads and writes
SwitchTables(s) ==
    [vlans |-> vlans[s], l3_interfaces |-> l3_interfaces[s],
     routing_table |-> routing_table[s], arp_table |-> arp_table[s],
     mac_table |-> mac_table[s]]

\* how many VLAN commands are given
MaxVlanOps == 5

\* the switches the VLAN commands go to
VlanSwitches == {"sw1", "sw2"}

\* the VLAN ids and names typed
VlanIds == {1, 2}

VlanNames == {"", "lab"}

\* the interface addresses given, and the MACs generate_random_mac may return
VlanInterfaceIps == {Ip(1, 1, 1), Ip(1, 2, 2)}

RandomMacs == {"mac11", "mac22"}

\* hist while create_vlan(V), assign_port(V, p), remove_port(V, p), delete_vlan(V)
\* follow each other on a switch that had no VLAN V: how far the four have come,
\* and the VLANs there were before the first
TripStarted(s, vlan_id) ==
    IF vlan_id \in DOMAIN vlans[s] THEN NoHist
    ELSE [op |-> "vlan", sw |-> s, vlan |-> vlan_id, port |-> NoId, step |-> "created",
          before |-> vlans[s]]

TripStep(s, vlan_id, port_id, from, to) ==
    IF /\ hist.op = "vlan"
       /\ hist.sw = s
       /\ hist.vlan = vlan_id
       /\ hist.step = from
       /\ (from = "created" \/ hist.port = port_id)
    THEN [hist EXCEPT !.step = to, !.port = port_id]
    ELSE NoHist

\* a command on the VLANs of switch s that leaves them as vl
VlanCommand(s, vl, h) ==
    /\ stack = <<>>
    /\ vlans' = [vlans EXCEPT ![s] = vl]
    /\ hist' = h
    /\ raised' = None
    /\ ops' = ops + 1
    /\ UNCHANGED <<topoVars, name, l3_interfaces, routing_table, arpVars, ospfVars, callVars>>

CreateVlanCmd ==
    \E s \in VlanSwitches, vlan_id \in VlanIds, vname \in VlanNames :
        /\ ops < MaxVlanOps
        /\ VlanCommand(s, create_vlan(vlans[s], vlan_id, vname), TripStarted(s, vlan_id))

EditVlanCmd ==
    \E s \in VlanSwitches, vlan_id \in VlanIds, vname \in VlanNames :
        /\ ops < MaxVlanOps
        /\ VlanCommand(s, edit_vlan(vlans[s], vlan_id, vname), NoHist)

DeleteVlanCmd ==
    \E s \in VlanSwitches, vlan_id \in VlanIds :
        /\ ops < MaxVlanOps
        /\ VlanCommand(s, delete_vlan(vlans[s], vlan_id),
                       TripStep(s, vlan_id, hist.port, "removed", "deleted"))

AssignPortCmd ==
    \E s \in VlanSwitches, vlan_id \in VlanIds, port_id \in PortIds :
        /\ ops < MaxVlanOps
        /\ VlanCommand(s, assign_port(vlans[s], vlan_id, port_id),
                       TripStep(s, vlan_id, port_id, "created", "assigned"))

RemovePortCmd ==
    \E s \in VlanSwitches, vlan_id \in VlanIds, port_id \in PortIds :
        /\ ops < MaxVlanOps
        /\ VlanCommand(s, remove_port(vlans[s], vlan_id, port_id),
                       TripStep(s, vlan_id, port_id, "assigned", "removed"))

\* create_vlan_interface(vlan_id, "<ip>/24") on switch s
CreateVlanInterfaceCmd ==
    \E s \in VlanSwitches, vlan_id \in VlanIds, ip \in VlanInterfaceIps, mac \in RandomMacs :
        \E sw \in {create_vlan_interface(SwitchTables(s), vlan_id, ip, 24, mac)} :
            /\ stack = <<>>
            /\ ops < MaxVlanOps
            /\ l3_interfaces' = [l3_interfaces EXCEPT ![s] = sw.l3_interfaces]
            /\ routing_table' = [routing_table EXCEPT ![s] = sw.routing_table]
            /\ arp_table' = [arp_table EXCEPT ![s] = sw.arp_table]
            /\ mac_table' = [mac_table EXCEPT ![s] = sw.mac_table]
            /\ hist' = [op |-> "create_vlan_interface", sw |-> s, vlan |-> vlan_id]
            /\ raised' = None
            /\ ops' = ops + 1
            /\ UNCHANGED <<topoVars, name, vlans, arp_queue, arp_request_timestamps,
                           ping_reply_received, ospfVars, callVars>>

\* OmniSwitch.assign_l3_interface_to_port on one switch whose tables are the
\* record sw: the interface has no MAC, the route names the port, and no ARP or
\* MAC entry is written
assign_l3_interface_to_port(sw, port_id, ip, plen) ==
    [sw EXCEPT
        !.l3_interfaces =
            DictSet(@, L3Interface(<<"Port", port_id>>, ip, plen, NoId, port_id, None)),
        !.routing_table =
            DictSet(@, Route(InterfaceNetwork(ip, plen), PortHop(port_id), "connected"))]

\* assign_l3_interface_to_port(port_id, "<ip>/24") on switch s
AssignL3InterfaceCmd ==
    \E s \in VlanSwitches, port_id \in {1}, ip \in VlanInterfaceIps :
        \E sw \in {assign_l3_interface_to_port(SwitchTables(s), port_id, ip, 24)} :
            /\ stack = <<>>
            /\ ops < MaxVlanOps
            /\ l3_interfaces' = [l3_interfaces EXCEPT ![s] = sw.l3_interfaces]
            /\ routing_table' = [routing_table EXCEPT ![s] = sw.routing_table]
            /\ hist' = [op |-> "assign_l3_interface_to_port", sw |-> s, port |-> port_id]
            /\ raised' = None
            /\ ops' = ops + 1
            /\ UNCHANGED <<topoVars, name, vlans, arpVars, ospfVars, callVars>>

NextVlan ==
    \/ AssignL3InterfaceCmd
    \/ CreateVlanCmd
    \/ EditVlanCmd
    \/ DeleteVlanCmd
    \/ AssignPortCmd
    \/ RemovePortCmd
    \/ CreateVlanInterfaceCmd

SpecVlan == InitFresh /\ [][NextVlan]_vars

\* C23: create_vlan_interface(V, cidr) on a switch without VLAN V changes
\* nothing: l3_interfaces, routing_table, arp_table and mac_table stay as they
\* were.
C23_InterfaceNeedsVlan ==
    [][\A s \in VlanSwitches :
          (/\ hist'.op = "create_vlan_interface"
           /\ hist'.sw = s
           /\ ops' = ops + 1
           /\ hist'.vlan \notin DOMAIN vlans[s])
          => UNCHANGED <<l3_interfaces, routing_table, arp_table, mac_table, vlans>>]_vars

\* C23 happens: an interface has been asked for on a VLAN the switch has not,
\* after the switch got an interface on a VLAN it has
C23_Witness ==
    /\ hist.op = "create_vlan_interface"
    /\ hist.vlan \notin DOMAIN vlans[hist.sw]
    /\ l3_interfaces[hist.sw] # <<>>

\* C26: on a switch without VLAN V, create_vlan(V), assign_port(V, p),
\* remove_port(V, p), delete_vlan(V) in a row leave the VLANs as they were
\* before, with no entry for V; a VLAN that does not exist comes to exist by
\* create_vlan only, so that edit_vlan, delete_vlan, assign_port and
\* remove_port of such a VLAN change no VLAN.
C26_VlanRoundTrip ==
    /\ [](hist.op = "vlan" /\ hist.step = "deleted"
            => /\ vlans[hist.sw] = hist.before
               /\ hist.vlan \notin DOMAIN vlans[hist.sw])
    /\ [][\A s \in VlanSwitches, vlan_id \in VlanIds :
             (/\ vlan_id \notin DOMAIN vlans[s]
              /\ vlan_id \in DOMAIN vlans'[s])
             => /\ hist' = TripStarted(s, vlan_id)
                /\ \A v \in DOMAIN vlans[s] : vlans'[s][v] = vlans[s][v]]_vars

\* C26 happens: the four commands have been given on a switch that had another
\* VLAN
C26_Witness ==
    /\ hist.op = "vlan"
    /\ hist.step = "deleted"
    /\ DOMAIN hist.before # {}

(***************************************************************************)
(* Claims about the order of handlers                                      *)
(***************************************************************************)

\* C24: the handlers of a switch are serialized: while a handler of switch s
\* waits for a call it made into another switch, no handler of s starts; on the
\* call stack, the frames of one switch are next to each other.
C24_HandlersSerialized ==
    \A i \in 1..Len(stack), k \in 1..Len(stack) :
        (i < k /\ stack[i].sw = stack[k].sw)
        => \A j \in i..k : stack[j].sw = stack[i].sw

(***************************************************************************)
(* Claims about what is handed to the neighbour                            *)
(***************************************************************************)

\* the step hands a packet to receive_packet of another switch
Delivers ==
    /\ stack # <<>>
    /\ stack' # <<>>
    /\ Len(stack') >= Len(stack)
    /\ stack'[1].fn = "receive_packet"
    /\ stack'[1].pc = "start"
    /\ stack'[1].sw # Top.sw

\* C27: when switch A sends a packet out of a port linked to port pB of switch
\* B, receive_packet of B gets in_port_id = pB, a port of B that is linked to A;
\* on the connected branch, on the static/ospf branch and in ARP flooding.
C27_InPortIsPeerPort ==
    [][Delivers =>
          /\ stack'[1].in_port_id \in PortIds
          /\ ports[stack'[1].sw][stack'[1].in_port_id].linked_node = Top.sw]_vars

\* receive_packet has had the ARP request for an address of the switch
\* answered by _handle_arp_request
OwnerHasAnswered ==
    /\ Running("receive_packet")
    /\ Top.pc = "handled"
    /\ Owners(Top.sw, Top.packet.payload.target_ip) # {}

\* C28: the switch that owns the target_ip of an ARP request sends the reply
\* and stops, whatever send_packet returned for the reply: receive_packet
\* returns, and the request goes into no send_packet.
C28_OwnerRepliesAndStops ==
    [][OwnerHasAnswered => Len(stack') = Len(stack) - 1]_vars

\* a route handler of a packet that came in through a port sends it on
SendsOn ==
    /\ stack # <<>>
    /\ Top.fn \in {"handle_connected_route", "handle_indirect_route"}
    /\ Top.exclude_port \in PortIds
    /\ Delivers

\* C29: a packet that came in through in_port_id is not sent out of
\* in_port_id, and the ARP request made while forwarding it does not go to the
\* neighbour behind in_port_id.
C29_IngressPortExcluded ==
    /\ [][SendsOn => arp_table[Top.sw][Top.key].port # Top.exclude_port]_vars
    /\ [][(SendsArpRequest /\ Top.exclude_port \in PortIds) =>
             \A i \in 1..Len(stack'[1].targets) :
                 stack'[1].targets[i].node # ports[Top.sw][Top.exclude_port].linked_node]_vars

\* C30: the ARP request a switch makes carries the IP and the MAC of one of the
\* switch's own L3 interfaces, also when the packet that needs the address came
\* from another switch.
C30_ArpRequestFromOwnInterface ==
    [][SendsArpRequest =>
          \E i \in 1..Len(l3_interfaces[Top.sw]) :
              /\ l3_interfaces[Top.sw][i].ip = stack'[1].packet.src_ip
              /\ l3_interfaces[Top.sw][i].mac_address = stack'[1].packet.src_mac]_vars

(***************************************************************************)
(* Claims about what the L3 interfaces leave in the tables                 *)
(***************************************************************************)

\* the addresses of the L3 interfaces of switch s
InterfaceIps(s) == {l3_interfaces[s][i].ip : i \in 1..Len(l3_interfaces[s])}

\* C31: every routing-table entry of type connected has as next hop the IP
\* address of an L3 interface of the switch, whether create_vlan_interface or
\* assign_l3_interface_to_port made it.
C31_ConnectedNextHopIsLocal ==
    \A s \in Switches : \A i \in 1..Len(routing_table[s]) :
        routing_table[s][i].route_type = "connected"
        => \E ip \in InterfaceIps(s) : routing_table[s][i].next_hop = IpHop(ip)

\* C36: for every L3 interface of a switch, the ARP table of the switch maps
\* the interface's address to the interface's MAC and port -1, in every
\* reachable state: no received ARP packet puts a physical port there.
C36_OwnArpEntriesStable ==
    \A s \in Switches : \A i \in 1..Len(l3_interfaces[s]) :
        /\ l3_interfaces[s][i].ip \in DOMAIN arp_table[s]
        /\ arp_table[s][l3_interfaces[s][i].ip] =
              [mac |-> l3_interfaces[s][i].mac_address, port |-> LocalPort]

(***************************************************************************)
(* Claims about repeated LSAs and the ospf entries                         *)
(***************************************************************************)

\* the receive_lsa on top of the stack was handed the LSA its switch has stored
\* for from_node
HoldsSameLsa ==
    /\ Running("receive_lsa")
    /\ DictHas(lsdb[Top.sw], Top.from_node)
    /\ SameDict(DictGet(lsdb[Top.sw], Top.from_node).links, Top.lsa)

\* C33: receive_lsa is idempotent: a call whose lsa equals the stored
\* lsdb[from_node] changes neither the LSDB, nor the OSPF route table, nor the
\* routing table, and returns without calling receive_lsa on any neighbour.
C33_ReceiveLsaIdempotent ==
    [][HoldsSameLsa => /\ UNCHANGED <<lsdb, ospf_routing_table, routing_table>>
                       /\ stack' = Tail(stack)]_vars

\* a switch that has computed OSPF routes is handed an LSA it has stored
C33_Witness ==
    /\ HoldsSameLsa
    /\ ospf_routing_table[Top.sw] # <<>>
    /\ LinkedNodes(Top.sw) # <<>>

\* C37: the ospf entries of the routing table track the OSPF engine: each has
\* the next hop the engine's current route table has for its network, and a
\* network the engine no longer computes a route for has no ospf entry left.
C37_OspfEntriesTrackEngine ==
    \A s \in Switches : \A i \in 1..Len(routing_table[s]) :
        routing_table[s][i].route_type = "ospf"
        => /\ DictHas(ospf_routing_table[s], routing_table[s][i].key)
           /\ IpHop(DictGet(ospf_routing_table[s], routing_table[s][i].key).next_hop)
                 = routing_table[s][i].next_hop

(***************************************************************************)
(* Claims about packets that wait for a next hop                           *)
(***************************************************************************)

\* C35: a packet that waited for the ARP reply of the next hop N of a static or
\* ospf route is, when the reply of N comes within 5 s, transmitted to N: it
\* goes to the receive_packet of the neighbour on the port of N's ARP entry,
\* and no ARP request is sent and nothing is queued on its behalf.
C35_QueuedForNextHopIsSentToIt ==
    [][Redelivers /\ Top.packet.dst_ip # stack[2].packet.src_ip =>
          \E f \in {Top}, N \in {stack[2].packet.src_ip} :
              /\ Len(stack') = Len(stack)
              /\ stack'[1].fn = "receive_packet"
              /\ stack'[1].sw = ports[f.sw][arp_table[f.sw][N].port].linked_node
              /\ stack'[1].packet = f.packet
              /\ UNCHANGED <<arp_queue, arp_request_timestamps>>]_vars

(***************************************************************************)
(* Claims about an interface whose VLAN was deleted                        *)
(***************************************************************************)

\* switch s has an interface with address ip, and every such interface is of a
\* VLAN the switch no longer has
Orphaned(s, ip) ==
    /\ Owners(s, ip) # {}
    /\ \A i \in Owners(s, ip) :
          /\ l3_interfaces[s][i].vlan # NoId
          /\ l3_interfaces[s][i].vlan \notin DOMAIN vlans[s]

\* receive_packet starts on a packet of the given type that is not dropped
Receives(type) ==
    /\ Running("receive_packet")
    /\ Top.pc = "start"
    /\ Top.ttl > 1
    /\ Top.packet.payload.type = type

\* C32: once the VLAN of an L3 interface is deleted, the interface and its
\* connected route stay, and the interface is out of reach: the switch sends
\* no ARP reply for its address, and a packet for the address is not taken as
\* local, so an echo request to it gets no echo reply.
C32_OrphanedInterfaceUnreachable ==
    /\ [][(Receives("arp-request") /\ Orphaned(Top.sw, Top.packet.payload.target_ip))
             => ~(stack'[1].fn = "send_packet"
                    /\ stack'[1].packet.payload.type = "arp-reply")]_vars
    /\ [][(Receives("ping") /\ Orphaned(Top.sw, Top.packet.dst_ip))
             => ~(stack'[1].fn = "send_packet"
                    /\ stack'[1].packet.payload.type = "ping-reply")]_vars

(***************************************************************************)
(* Packets in a triangle and in a static loop                              *)
(***************************************************************************)

\* how many commands are given
MaxLoopOps == 3

\* the TTLs send_packet is called with: none left, one or two hops' worth, the
\* default of send_packet and the one ping uses
LoopTtls == {0, 1, 2, PingReplyTtl, PingTtl}

\* the addresses sent to: one behind sw2, one nobody has, and one of a subnet
\* no switch is in
LoopTargets == {Ip(1, 2, 3), Ip(1, 1, 9), Ip(1, 3, 1)}

\* the link that makes a triangle of the chain
LoopLinks == {<<"sw1", 2, "sw3", 2>>}

\* static routes: to the far subnet, and to 10.1.3.0/24 from sw1 and sw2 through
\* each other
LoopStaticRoutes ==
    {<<"sw1", Cidr(Ip(1, 2, 0), 24), Ip(1, 1, 2)>>,
     <<"sw1", Cidr(Ip(1, 3, 0), 24), Ip(1, 1, 2)>>,
     <<"sw2", Cidr(Ip(1, 3, 0), 24), Ip(1, 1, 1)>>}

\* send_packet(packet, ttl) on sw1, for a packet from its interface
LoopSendCmd ==
    \E dst_ip \in LoopTargets, ttl \in LoopTtls :
        /\ Idle
        /\ ops < MaxLoopOps
        /\ stack' = <<SendFrame("sw1",
                                PingRequest(l3_interfaces["sw1"][1].ip, dst_ip,
                                            l3_interfaces["sw1"][1].mac_address, 1),
                                ttl, NoId)>>
        /\ hist' = NoHist
        /\ raised' = None
        /\ ops' = ops + 1
        /\ UNCHANGED <<topoVars, confVars, routing_table, arpVars, ospfVars, ret, now, ping>>

LoopLinkCmd ==
    \E l \in LoopLinks : Idle /\ ops < MaxLoopOps /\ link(l[1], l[2], l[3], l[4])

LoopAddRouteCmd ==
    \E r \in LoopStaticRoutes : Idle /\ ops < MaxLoopOps /\ add_route(r[1], r[2], r[3])

NextLoop ==
    \/ LoopSendCmd
    \/ LoopLinkCmd
    \/ LoopAddRouteCmd
    \/ SendPacketStep
    \/ ConnectedRouteStep
    \/ IndirectRouteStep
    \/ ArpRequestStep
    \/ ArpFloodStep
    \/ ReceivePacketStep
    \/ AfterArpRequestStep

\* the links of the lab are there from the start, so an ARP reply comes back
\* inside the call that asked for it, before the packet is queued: no reply
\* finds a packet waiting, and the drain loop has no step here
SpecLoop == InitLab /\ [][NextLoop]_vars

\* the same, with every call running on: the calls between switches are method
\* calls, and a call that has started goes on to its return
SpecLoopFair == InitLab /\ [][NextLoop]_vars /\ WF_vars(ForwardStep)

MaxHops == 8

\* the addresses of the two ends of the line
PathSrc == Ip(1, 1, 1)

PathDst == Ip(1, 2, 3)

\* ping on the switch at one end of a line of hops + 1 switches, to the
\* interface of the switch at the other end: send_packet(packet, ttl=118). The
\* switches of the line are numbered 0..hops from the pinging one; each has a
\* route towards both ends and the ARP entry of its next hop, so that
\* send_packet goes through a route handler to receive_packet of the next one
PathPingCmd ==
    \E hops \in 1..MaxHops :
        /\ Idle
        /\ hist.op \in {"none", "path"}
        /\ stack' = <<SendFrame(0, PingRequest(PathSrc, PathDst, "mac11", 1), PingTtl, NoId)>>
        /\ hist' = [op |-> "path", hops |-> hops, arrived |-> FALSE, replied |-> FALSE]
        /\ UNCHANGED <<ret, raised, arpVars, fwdFixed>>

\* send_packet on a switch of the line, and the route handler it returns
\* through: "if ttl <= 0: return False", then
\* "return neighbor.receive_packet(packet, ttl - 1, in_port_id=...)"
PathSendStep ==
    /\ Running("send_packet")
    /\ hist.op = "path"
    /\ IF Top.ttl <= 0 THEN Return("False")
       ELSE Replace(ReceiveFrame(IF Top.packet.dst_ip = PathDst THEN Top.sw + 1
                                 ELSE Top.sw - 1,
                                 Top.packet, Top.ttl - 1, 1))
    /\ UNCHANGED <<hist, arpVars, fwdFixed>>

\* receive_packet on a switch of the line: "if ttl <= 1: return False"; the
\* switch that has dst_ip answers the echo request with send_packet(reply,
\* ttl=10) and takes the echo reply; every other switch forwards
PathReceiveStep ==
    /\ Running("receive_packet")
    /\ hist.op = "path"
    /\ \E f \in {Top} :
          IF f.ttl <= 1 THEN Return("False") /\ UNCHANGED hist
          ELSE IF f.packet.dst_ip = PathDst /\ f.sw = hist.hops
          THEN /\ Replace(SendFrame(f.sw,
                                    PingReply(f.packet, [mac_address |-> "mac32"]),
                                    PingReplyTtl, NoId))
               /\ hist' = [hist EXCEPT !.arrived = TRUE]
          ELSE IF f.packet.dst_ip = PathSrc /\ f.sw = 0
          THEN /\ Return("True")
               /\ hist' = [hist EXCEPT !.replied = TRUE]
          ELSE Forward(f) /\ UNCHANGED hist
    /\ UNCHANGED <<arpVars, fwdFixed>>

NextPath ==
    \/ PathPingCmd
    \/ PathSendStep
    \/ PathReceiveStep

SpecPath == InitFresh /\ [][NextPath]_vars

\* C38: the echo reply to an echo request that was sent with TTL 118 and
\* arrived over a path of some number of links is not dropped for TTL expiry
\* on the way back over as many links: no receive_packet gets it with ttl <= 1.
C38_EchoReplySurvivesLongPath ==
    ~(/\ Running("receive_packet")
      /\ hist.op = "path"
      /\ hist.arrived
      /\ Top.packet.payload.type = "ping-reply"
      /\ Top.ttl <= 1)

=============================================================================
